---- MODULE Spec2Model ----
(***************************************************************************)
(* The batch-scheduling experiment configuration                           *)
(* (greenlab_rpi/Run_Config_batch.py): the RunnerConfig object, the hooks  *)
(* the experiment-runner framework calls on it once per trial, the remote  *)
(* command it issues over ssh, the two scp transfers and the parse of the  *)
(* result record.  The framework's lifecycle driver is not part of the     *)
(* sources; its hook order and its reaction to a raising hook follow the   *)
(* specification (sections 6 and 7).                                       *)
(***************************************************************************)
EXTENDS Integers, Sequences, FiniteSets, TLC

VARIABLES
    self,        \* the RunnerConfig instance: current_batch, runs_in_batch, BATCH_SIZE
    total_runs,  \* len(run_table_model.get_all_rows())
    pc,          \* the hook the driver calls next
    run_nr,      \* context.run_nr of the current trial (1-based)
    ctx,         \* the RunnerContext of the current trial
    fs,          \* context.run_dir of the current trial (local file system)
    trace,       \* console lines and I/O operations of the current trial, in order
    results,     \* the run table: for trials 1..Len(results), the reference to the
                 \* run_data object populate_run_data returned
    heap,        \* the run_data dictionaries allocated so far, by reference
    interrupted, \* whether the operator interrupted a wait for confirmation
    pauses,      \* the trials before which operator confirmation was requested
    raised,      \* the exception that left a hook, "none" while there is none
    announced,   \* total_batches as logged by before_experiment (0 before it ran)
    remote,      \* what the remote command of the current trial did (see RemoteBehaviours)
    dut,         \* the workload most recently started on the DUT: the trial it belongs
                 \* to, whether the controller gave up waiting for it, whether it still runs
    sim,         \* the synthetic measurement model: the process-wide random generator,
                 \* the files written and the values returned (see the Sim sections)
    plan         \* the run table being generated (see the plan section)

vars == <<self, total_runs, pc, run_nr, ctx, fs, trace, results, heap, interrupted, pauses,
          raised, announced, remote, dut, sim, plan>>

\* The variables of the experiment controller.
ctrl_vars == <<self, total_runs, pc, run_nr, ctx, fs, trace, results, heap, interrupted, pauses,
               raised, announced, remote, dut>>

\* No synthetic measurement was made, no plan is being generated.
NoSim == <<>>
NoPlan == <<>>

----------------------------------------------------------------------------
(* Bounds of the model *)

MaxRuns == 5
MaxBatchSize == 2

(* Program constants *)

SSH_TIMEOUT_S == 5400
BASELINE_SSH_TIMEOUT_S == 900
STDERR_EXCERPT == 500
MIN_FIELDS == 9

----------------------------------------------------------------------------
(* Strings are sequences of one-character strings. *)

Min(a, b) == IF a <= b THEN a ELSE b

Chars(n, c) == [i \in 1..n |-> c]

\* s[:n]
Prefix(s, n) == SubSeq(s, 1, Min(n, Len(s)))

TIMEOUT_TEXT == <<"T", "I", "M", "E", "O", "U", "T">>

----------------------------------------------------------------------------
(* RunnerConfig.__init__: the batch counters of a fresh instance.  The     *)
(* source sets BATCH_SIZE = 6; the model takes the size as a parameter.    *)
(* `config` is the configuration file whose RunnerConfig class the         *)
(* instance is of: Run_Config_batch.py, or one of the two baseline         *)
(* configurations, whose start_measurement differs.                        *)

CONFIGS == {"Run_Config_batch", "RunConfig", "Run_Config_2"}

RunnerConfig(size) ==
    [current_batch |-> 1, runs_in_batch |-> 0, BATCH_SIZE |-> size,
     config |-> "Run_Config_batch"]

\* Assignment_3/baseline/RunConfig.py __init__, lines 38-55: this
\* configuration has no batches and its instance has no counters
RunConfig_RunnerConfig == [config |-> "RunConfig"]

\* a total that counts one batch too many when the plan fills its last batch
total_batches_floor(s, n) == n \div s.BATCH_SIZE + 1

\* before_experiment: total_batches = (total_runs + BATCH_SIZE - 1) // BATCH_SIZE
total_batches(s, n) == (n + s.BATCH_SIZE - 1) \div s.BATCH_SIZE

----------------------------------------------------------------------------
(* Batch scheduler: before_run / start_run *)

\* before_run, line 104: whether the hook blocks on input()
should_pause_strict(s) == s.runs_in_batch > s.BATCH_SIZE

should_pause(s) == s.runs_in_batch >= s.BATCH_SIZE

\* before_run, lines 108-115: input() returned (ENTER), was interrupted
\* (SIGINT) or met the end of standard input (EOF); `exc` is the exception
\* that leaves the hook.  `except KeyboardInterrupt` does not catch EOFError.
InputKeys == {"ENTER", "SIGINT", "EOF"}

input_error(key) == IF key = "SIGINT" THEN "KeyboardInterrupt" ELSE "EOFError"

await_input_swallow(s, key) ==
    IF key = "ENTER"
    THEN [self |-> [s EXCEPT !.current_batch = @ + 1, !.runs_in_batch = 0],
          exc |-> "none"]
    ELSE [self |-> s, exc |-> IF key = "SIGINT" THEN "none" ELSE input_error(key)]

await_input_no_bump(s, key) ==
    IF key = "ENTER"
    THEN [self |-> [s EXCEPT !.runs_in_batch = 0], exc |-> "none"]
    ELSE [self |-> s, exc |-> input_error(key)]

await_input_no_reset(s, key) ==
    IF key = "ENTER"
    THEN [self |-> [s EXCEPT !.current_batch = @ + 1], exc |-> "none"]
    ELSE [self |-> s, exc |-> input_error(key)]

await_input(s, key) ==
    IF key = "ENTER"
    THEN [self |-> [s EXCEPT !.current_batch = @ + 1, !.runs_in_batch = 0],
          exc |-> "none"]
    ELSE [self |-> s, exc |-> input_error(key)]

\* start_run, line 124
start_run(s) == [s EXCEPT !.runs_in_batch = @ + 1]

----------------------------------------------------------------------------
(* The trial context.  `set` holds the names of the attributes assigned so *)
(* far; reading one that is not in it raises AttributeError.               *)

\* create_run_table_model, lines 49-61: the factors and their levels, in
\* the order they are declared.
SUBJECTS ==
    <<"DaCapo", "CLBG-BinaryTrees", "CLBG-Fannkuch", "CLBG-NBody", "Rosetta",
      "PetClinic", "TodoApp", "ANDIE">>
GCS == <<"Serial", "Parallel", "G1">>
WORKLOADS == <<"Light", "Medium", "Heavy">>
JDKS == <<"openjdk", "oracle">>

\* Row n of the run table: the combinations of the factor levels in declared
\* order, the last factor changing fastest, one repetition each.
run_table_row(n) ==
    LET i == n - 1 IN
    [subject  |-> SUBJECTS[((i \div (Len(GCS) * Len(WORKLOADS) * Len(JDKS))) % Len(SUBJECTS)) + 1],
     gc       |-> GCS[((i \div (Len(WORKLOADS) * Len(JDKS))) % Len(GCS)) + 1],
     workload |-> WORKLOADS[((i \div Len(JDKS)) % Len(WORKLOADS)) + 1],
     jdk      |-> JDKS[(i % Len(JDKS)) + 1],
     rep      |-> 0]

\* Row n of a generated run table: the levels of the trial with sequence
\* number n, for the first subject and the first JDK.
plan_row(n) ==
    LET t == plan.table.specs[n] IN
    [subject  |-> SUBJECTS[1],
     gc       |-> t.levels["gc_strategy"],
     workload |-> t.levels["workload"],
     jdk      |-> JDKS[1],
     rep      |-> t.repetition]

NewContext(n) ==
    [run_nr |-> n, run_variation |-> run_table_row(n), set |-> {}, ssh_command |-> <<>>,
     batch_num |-> 0, ssh_returncode |-> 0, ssh_stderr |-> <<>>]

\* the context the framework hands to the hooks of trial n: the row of the
\* generated run table when one was generated
TrialContext(n) ==
    IF plan = NoPlan THEN NewContext(n)
    ELSE [NewContext(n) EXCEPT !.run_variation = plan_row(n)]

E(ev, tag, text) == [ev |-> ev, tag |-> tag, text |-> text]

\* A text is a sequence of tokens; " " is the blank.  f"{n}" of an integer
\* n >= 0 is its decimal digits.
Digit == <<"0", "1", "2", "3", "4", "5", "6", "7", "8", "9">>

RECURSIVE str(_)
str(n) == IF n < 10 THEN <<Digit[n + 1]>> ELSE str(n \div 10) \o <<Digit[(n % 10) + 1]>>

\* os.getenv('LAPTOP_EXPERIMENT_DIR', ...), line 144, with the variable unset
laptop_exp_dir == "/home/your_username/gc_experiment"

\* lines 154-157
SERVICE_SUBJECTS == {"PetClinic", "TodoApp", "ANDIE"}
SERVICE_SCRIPT == "Service_Apps_Run_Single_Experiment.sh"
BENCHMARK_SCRIPT == "Run_Single_Experiment.sh"

\* Run_Config_batch.py start_measurement, lines 154-157: which shell script
\* runs the trial.  Only this configuration chooses between two scripts.
script_name(subject) ==
    IF subject \in SERVICE_SUBJECTS THEN SERVICE_SCRIPT ELSE BENCHMARK_SCRIPT

\* Run_Config_batch.py start_measurement, lines 146-162: the command line
\* for the trial with run_variation v and run number run_num
remote_cmd(v, run_num) ==
    <<"cd", " ", laptop_exp_dir, " ", "&&", " ", "./", script_name(v.subject), " ",
      v.subject, " ", v.gc, " ", v.workload, " ", v.jdk, " ">>
        \o str(v.rep) \o <<" ">> \o str(run_num)

\* Run_Config_batch.py start_measurement, lines 139-169
start_measurement(s, c) ==
    [c EXCEPT !.set = @ \cup {"ssh_command", "laptop_user", "laptop_host",
                              "laptop_exp_dir", "batch_num"},
              !.ssh_command = remote_cmd(c.run_variation, c.run_nr),
              !.batch_num = s.current_batch]

\* Assignment_3/baseline: both configurations name one script for every
\* subject (RunConfig.py line 168, Run_Config_2.py line 162), although
\* their run tables declare the same eight subjects.
BASELINE_SCRIPT == "run_single_experiment.sh"

\* os.getenv('LAPTOP_EXPERIMENT_DIR', ...) with the variable unset:
\* RunConfig.py line 155 and Run_Config_2.py line 151
RunConfig_laptop_exp_dir == "/home/your_username/gc_experiment"
Run_Config_2_laptop_exp_dir == "/home/vivekbharadwaj99/greenlab-dut"

\* RunConfig.py start_measurement, lines 158-169
RunConfig_remote_cmd(v, run_num) ==
    <<"cd", " ", RunConfig_laptop_exp_dir, " ", "&&", " ", "./", BASELINE_SCRIPT, " ",
      v.subject, " ", v.gc, " ", v.workload, " ", v.jdk, " ">>
        \o str(v.rep) \o <<" ">> \o str(run_num)

\* RunConfig.py start_measurement, lines 147-178: this configuration has no
\* batches and assigns no batch_num
RunConfig_start_measurement(s, c) ==
    [c EXCEPT !.set = @ \cup {"ssh_command", "laptop_user", "laptop_host",
                              "laptop_exp_dir"},
              !.ssh_command = RunConfig_remote_cmd(c.run_variation, c.run_nr)]

\* Run_Config_2.py start_measurement, lines 153-163
Run_Config_2_remote_cmd(v, run_num) ==
    <<"cd", " ", Run_Config_2_laptop_exp_dir, " ", "&&", " ", "./", BASELINE_SCRIPT, " ",
      v.subject, " ", v.gc, " ", v.workload, " ", v.jdk, " ">>
        \o str(v.rep) \o <<" ">> \o str(run_num)

\* Run_Config_2.py start_measurement, lines 147-170
Run_Config_2_start_measurement(s, c) ==
    [c EXCEPT !.set = @ \cup {"ssh_command", "laptop_user", "laptop_host",
                              "laptop_exp_dir", "batch_num"},
              !.ssh_command = Run_Config_2_remote_cmd(c.run_variation, c.run_nr),
              !.batch_num = s.current_batch]

----------------------------------------------------------------------------
(* Remote execution: interact.  A behaviour of subprocess.run(ssh_cmd,     *)
(* capture_output=True, text=True, timeout=5400): the ssh process cannot   *)
(* be started (OSError), it never ends, it ends after `secs` seconds with  *)
(* exit code rc and stderr err, or it ends after `secs` seconds with       *)
(* output that is not valid UTF-8 ("undecodable": text=True decodes the    *)
(* output when the process has ended and raises UnicodeDecodeError).       *)

StderrTexts == {<<>>, <<"e">>, Chars(STDERR_EXCERPT + 1, "x")}

RemoteBehaviours ==
    {[kind |-> k, secs |-> 0, rc |-> 0, err |-> <<>>] : k \in {"nostart", "hung"}}
    \cup {[kind |-> "undecodable", secs |-> 10, rc |-> r, err |-> <<>>] : r \in {0, 1}}
    \cup {[kind |-> "exit", secs |-> t, rc |-> r, err |-> e] :
            t \in {10, BASELINE_SSH_TIMEOUT_S + 1, SSH_TIMEOUT_S + 1},
            r \in {0, 1, 255, -1}, e \in StderrTexts}

\* the behaviours tried with a configuration: a command of 901 s is tried
\* where the limit is 900 s (under the limit of 5400 s it ends in time as
\* the command of 10 s does)
BehavioursFor(s) ==
    {beh \in RemoteBehaviours :
        beh.secs = BASELINE_SSH_TIMEOUT_S + 1 => s.config # "Run_Config_batch"}

\* The timeout argument of a subprocess.run call.
NoTimeout == [given |-> FALSE, secs |-> 0]

\* interact called without timeout=
ssh_timeout_absent == NoTimeout

\* interact, line 178: timeout=5400
ssh_timeout == [given |-> TRUE, secs |-> SSH_TIMEOUT_S]

\* stop_measurement, line 209: subprocess.run(scp_cmd, capture_output=True)
scp_timeout == NoTimeout

\* How a call subprocess.run(cmd, timeout=t) ends when the child process
\* behaves as beh: the child cannot be started, the timeout expires before
\* the child ends (the child is killed and TimeoutExpired raised), the call
\* waits for ever, the child ends and its output cannot be decoded (calls
\* with text=True; the scp calls capture bytes and have no such
\* behaviour), or the child ends and the call returns.
subprocess_run(beh, t) ==
    IF beh.kind = "nostart" THEN "OSError"
    ELSE IF t.given /\ (beh.kind = "hung" \/ beh.secs > t.secs) THEN "TimeoutExpired"
    ELSE IF beh.kind = "hung" THEN "blocked"
    ELSE IF beh.kind = "undecodable" THEN "UnicodeDecodeError"
    ELSE "completed"

\* subprocess.run raises TimeoutExpired
TimeoutExpired(beh) == subprocess_run(beh, ssh_timeout) = "TimeoutExpired"

interact_timeout_unset(c, beh) ==
    IF ~({"laptop_user", "laptop_host", "ssh_command"} \subseteq c.set)
    THEN [ctx |-> c, out |-> <<>>, exc |-> "AttributeError", returns |-> TRUE,
          abandoned |-> FALSE]
    ELSE IF subprocess_run(beh, ssh_timeout) = "OSError"
    THEN [ctx |-> c, out |-> <<>>, exc |-> "OSError", returns |-> TRUE,
          abandoned |-> FALSE]
    ELSE IF subprocess_run(beh, ssh_timeout) = "blocked"
    THEN [ctx |-> c, out |-> <<>>, exc |-> "none", returns |-> FALSE,
          abandoned |-> FALSE]
    ELSE IF subprocess_run(beh, ssh_timeout) = "UnicodeDecodeError"
    THEN [ctx |-> c, out |-> <<>>, exc |-> "UnicodeDecodeError", returns |-> TRUE,
          abandoned |-> FALSE]
    ELSE IF subprocess_run(beh, ssh_timeout) = "TimeoutExpired"
    THEN [ctx |-> c,
          out |-> <<E("outcome", "TIMEOUT", <<>>)>>,
          exc |-> "none", returns |-> TRUE, abandoned |-> TRUE]
    ELSE [ctx |-> [c EXCEPT !.set = @ \cup {"ssh_returncode", "ssh_stdout", "ssh_stderr"},
                            !.ssh_returncode = beh.rc,
                            !.ssh_stderr = beh.err],
          out |-> IF beh.rc = 0
                  THEN <<E("outcome", "SUCCESS", <<>>)>>
                  ELSE <<E("outcome", "FAILED", <<>>),
                         E("stderr", "", Prefix(beh.err, STDERR_EXCERPT))>>,
          exc |-> "none", returns |-> TRUE, abandoned |-> FALSE]

\* interact, lines 174-191.  `returns` is whether the call ever ends;
\* `abandoned` is whether it ended without the remote command having ended
\* (TimeoutExpired kills the local ssh process, nothing stops the workload).
interact(c, beh) ==
    IF ~({"laptop_user", "laptop_host", "ssh_command"} \subseteq c.set)
    THEN [ctx |-> c, out |-> <<>>, exc |-> "AttributeError", returns |-> TRUE,
          abandoned |-> FALSE]
    ELSE IF subprocess_run(beh, ssh_timeout) = "OSError"
    THEN [ctx |-> c, out |-> <<>>, exc |-> "OSError", returns |-> TRUE,
          abandoned |-> FALSE]
    ELSE IF subprocess_run(beh, ssh_timeout) = "blocked"
    THEN [ctx |-> c, out |-> <<>>, exc |-> "none", returns |-> FALSE,
          abandoned |-> FALSE]
    ELSE IF subprocess_run(beh, ssh_timeout) = "UnicodeDecodeError"
    THEN [ctx |-> c, out |-> <<>>, exc |-> "UnicodeDecodeError", returns |-> TRUE,
          abandoned |-> FALSE]
    ELSE IF subprocess_run(beh, ssh_timeout) = "TimeoutExpired"
    THEN [ctx |-> [c EXCEPT !.set = @ \cup {"ssh_returncode", "ssh_stdout", "ssh_stderr"},
                            !.ssh_returncode = -1,
                            !.ssh_stderr = TIMEOUT_TEXT],
          out |-> <<E("outcome", "TIMEOUT", <<>>)>>,
          exc |-> "none", returns |-> TRUE, abandoned |-> TRUE]
    ELSE [ctx |-> [c EXCEPT !.set = @ \cup {"ssh_returncode", "ssh_stdout", "ssh_stderr"},
                            !.ssh_returncode = beh.rc,
                            !.ssh_stderr = beh.err],
          out |-> IF beh.rc = 0
                  THEN <<E("outcome", "SUCCESS", <<>>)>>
                  ELSE <<E("outcome", "FAILED", <<>>),
                         E("stderr", "", Prefix(beh.err, STDERR_EXCERPT))>>,
          exc |-> "none", returns |-> TRUE, abandoned |-> FALSE]

\* Assignment_3/baseline: RunConfig.py line 194 and Run_Config_2.py line 176
\* pass timeout=900
RunConfig_ssh_timeout == [given |-> TRUE, secs |-> BASELINE_SSH_TIMEOUT_S]
Run_Config_2_ssh_timeout == [given |-> TRUE, secs |-> BASELINE_SSH_TIMEOUT_S]

\* RunConfig.py interact, lines 180-211
RunConfig_interact(c, beh) ==
    IF ~({"laptop_user", "laptop_host", "ssh_command"} \subseteq c.set)
    THEN [ctx |-> c, out |-> <<>>, exc |-> "AttributeError", returns |-> TRUE,
          abandoned |-> FALSE]
    ELSE IF subprocess_run(beh, RunConfig_ssh_timeout) = "OSError"
    THEN [ctx |-> c, out |-> <<>>, exc |-> "OSError", returns |-> TRUE,
          abandoned |-> FALSE]
    ELSE IF subprocess_run(beh, RunConfig_ssh_timeout) = "blocked"
    THEN [ctx |-> c, out |-> <<>>, exc |-> "none", returns |-> FALSE,
          abandoned |-> FALSE]
    ELSE IF subprocess_run(beh, RunConfig_ssh_timeout) = "UnicodeDecodeError"
    THEN [ctx |-> c, out |-> <<>>, exc |-> "UnicodeDecodeError", returns |-> TRUE,
          abandoned |-> FALSE]
    ELSE IF subprocess_run(beh, RunConfig_ssh_timeout) = "TimeoutExpired"
    THEN [ctx |-> [c EXCEPT !.set = @ \cup {"ssh_returncode", "ssh_stdout", "ssh_stderr"},
                            !.ssh_returncode = -1,
                            !.ssh_stderr = TIMEOUT_TEXT],
          out |-> <<E("outcome", "TIMEOUT", <<>>)>>,
          exc |-> "none", returns |-> TRUE, abandoned |-> TRUE]
    ELSE [ctx |-> [c EXCEPT !.set = @ \cup {"ssh_returncode", "ssh_stdout", "ssh_stderr"},
                            !.ssh_returncode = beh.rc,
                            !.ssh_stderr = beh.err],
          out |-> IF beh.rc = 0
                  THEN <<E("outcome", "SUCCESS", <<>>)>>
                  ELSE <<E("outcome", "FAILED", <<>>),
                         E("stderr", "", Prefix(beh.err, STDERR_EXCERPT))>>,
          exc |-> "none", returns |-> TRUE, abandoned |-> FALSE]

\* Run_Config_2.py interact, lines 172-189
Run_Config_2_interact(c, beh) ==
    IF ~({"laptop_user", "laptop_host", "ssh_command"} \subseteq c.set)
    THEN [ctx |-> c, out |-> <<>>, exc |-> "AttributeError", returns |-> TRUE,
          abandoned |-> FALSE]
    ELSE IF subprocess_run(beh, Run_Config_2_ssh_timeout) = "OSError"
    THEN [ctx |-> c, out |-> <<>>, exc |-> "OSError", returns |-> TRUE,
          abandoned |-> FALSE]
    ELSE IF subprocess_run(beh, Run_Config_2_ssh_timeout) = "blocked"
    THEN [ctx |-> c, out |-> <<>>, exc |-> "none", returns |-> FALSE,
          abandoned |-> FALSE]
    ELSE IF subprocess_run(beh, Run_Config_2_ssh_timeout) = "UnicodeDecodeError"
    THEN [ctx |-> c, out |-> <<>>, exc |-> "UnicodeDecodeError", returns |-> TRUE,
          abandoned |-> FALSE]
    ELSE IF subprocess_run(beh, Run_Config_2_ssh_timeout) = "TimeoutExpired"
    THEN [ctx |-> [c EXCEPT !.set = @ \cup {"ssh_returncode", "ssh_stdout", "ssh_stderr"},
                            !.ssh_returncode = -1,
                            !.ssh_stderr = TIMEOUT_TEXT],
          out |-> <<E("outcome", "TIMEOUT", <<>>)>>,
          exc |-> "none", returns |-> TRUE, abandoned |-> TRUE]
    ELSE [ctx |-> [c EXCEPT !.set = @ \cup {"ssh_returncode", "ssh_stdout", "ssh_stderr"},
                            !.ssh_returncode = beh.rc,
                            !.ssh_stderr = beh.err],
          out |-> IF beh.rc = 0
                  THEN <<E("outcome", "SUCCESS", <<>>)>>
                  ELSE <<E("outcome", "FAILED", <<>>),
                         E("stderr", "", Prefix(beh.err, STDERR_EXCERPT))>>,
          exc |-> "none", returns |-> TRUE, abandoned |-> FALSE]

\* the interact hook of the instance s
interact_of(s, c, beh) ==
    CASE s.config = "Run_Config_batch" -> interact(c, beh)
      [] s.config = "RunConfig" -> RunConfig_interact(c, beh)
      [] s.config = "Run_Config_2" -> Run_Config_2_interact(c, beh)

----------------------------------------------------------------------------
(* Artifact retrieval: stop_measurement.  The local run directory is       *)
(* [dirs, files]: the directories that exist under context.run_dir and the *)
(* content of each file in dut_results.  `scp` gives, per file name, what  *)
(* the transfer would do: [ok, content].                                   *)

FNAMES == <<"energy.csv", "result.csv">>

EmptyDir == [dirs |-> {}, files |-> <<>>]

\* One pass of the loop, lines 203-213.  scp cannot write into a directory
\* that does not exist.  `returns` is FALSE once a transfer has not ended;
\* `exc` is the exception subprocess.run raised when scp could not be started.
retrieve(acc, fname, scp) ==
    IF ~acc.returns \/ acc.exc # "none" THEN acc
    ELSE IF subprocess_run(scp[fname], scp_timeout) = "OSError"
    THEN [acc EXCEPT !.out = @ \o <<E("scp", fname, <<>>)>>, !.exc = "OSError"]
    ELSE IF subprocess_run(scp[fname], scp_timeout) = "blocked"
    THEN [acc EXCEPT !.out = @ \o <<E("scp", fname, <<>>)>>, !.returns = FALSE]
    ELSE LET ok == scp[fname].ok /\ "dut_results" \in acc.fs.dirs
         IN  [fs  |-> IF ok
                      THEN [acc.fs EXCEPT !.files = (fname :> scp[fname].content) @@ @]
                      ELSE acc.fs,
              out |-> acc.out \o <<E("scp", fname, <<>>),
                                   E(IF ok THEN "retrieved" ELSE "retrieve_failed", fname, <<>>)>>,
              exc |-> "none",
              returns |-> TRUE]

RECURSIVE retrieve_all(_, _, _)
retrieve_all(acc, names, scp) ==
    IF names = <<>> THEN acc
    ELSE retrieve_all(retrieve(acc, Head(names), scp), Tail(names), scp)

\* lines 199-201: the directory has been made, no transfer attempted yet
made_dir(f) ==
    [fs |-> [f EXCEPT !.dirs = @ \cup {"dut_results"}],
     out |-> <<E("mkdir", "dut_results", <<>>)>>, exc |-> "none", returns |-> TRUE]

stop_measurement_any_outcome(c, f, scp) ==
    IF "ssh_returncode" \notin c.set
    THEN [fs |-> f, out |-> <<>>, exc |-> "AttributeError", returns |-> TRUE]
    ELSE retrieve_all(made_dir(f), FNAMES, scp)

stop_measurement_stop_at_failure(c, f, scp) ==
    IF "ssh_returncode" \notin c.set
    THEN [fs |-> f, out |-> <<>>, exc |-> "AttributeError", returns |-> TRUE]
    ELSE IF c.ssh_returncode = 0
    THEN LET first == retrieve(made_dir(f), FNAMES[1], scp)
         IN  IF first.returns /\ first.out[Len(first.out)].ev # "retrieved"
             THEN first
             ELSE retrieve(first, FNAMES[2], scp)
    ELSE [fs |-> f, out |-> <<>>, exc |-> "none", returns |-> TRUE]

\* stop_measurement, lines 196-213
stop_measurement(c, f, scp) ==
    IF "ssh_returncode" \notin c.set
    THEN [fs |-> f, out |-> <<>>, exc |-> "AttributeError", returns |-> TRUE]
    ELSE IF c.ssh_returncode = 0
    THEN retrieve_all(made_dir(f), FNAMES, scp)
    ELSE [fs |-> f, out |-> <<>>, exc |-> "none", returns |-> TRUE]

----------------------------------------------------------------------------
(* Result parser: populate_run_data.  A file is a sequence of tokens; ","  *)
(* is the separator and " " and "\n" are white space.  A field is the      *)
(* sequence of tokens between two separators.                              *)

White == {" ", "\n"}

RECURSIVE LStrip(_)
LStrip(t) == IF t # <<>> /\ Head(t) \in White THEN LStrip(Tail(t)) ELSE t

RECURSIVE RStrip(_)
RStrip(t) ==
    IF t # <<>> /\ t[Len(t)] \in White THEN RStrip(SubSeq(t, 1, Len(t) - 1)) ELSE t

\* str.strip()
Strip(t) == RStrip(LStrip(t))

\* str.split(','): one more field than there are separators
RECURSIVE Split(_)
Split(t) ==
    IF \A i \in 1..Len(t) : t[i] # ","
    THEN <<t>>
    ELSE LET i == CHOOSE j \in 1..Len(t) :
                     t[j] = "," /\ \A k \in 1..(j - 1) : t[k] # ","
         IN  <<SubSeq(t, 1, i - 1)>> \o Split(SubSeq(t, i + 1, Len(t)))

\* The numeric tokens and their values, in tenths.
NumberOf == ("12.5" :> 125) @@ ("33.7" :> 337) @@ ("0" :> 0)

\* float(x) accepts white space around the number; anything else raises
\* ValueError.
IsFloat(field) ==
    LET f == Strip(field) IN Len(f) = 1 /\ f[1] \in DOMAIN NumberOf

float(field) == NumberOf[Strip(field)[1]]

Null == [isnull |-> TRUE, val |-> 0]
Num(v) == [isnull |-> FALSE, val |-> v]

FAILED == <<"FAILED">>

\* Lines 234-237 with the indices one too low.
parse_body_shifted(run_data, parts) ==
    IF Len(parts) < MIN_FIELDS
    THEN [data |-> run_data, exc |-> "none", out |-> <<>>]
    ELSE IF parts[6] # FAILED /\ ~IsFloat(parts[6])
    THEN [data |-> run_data, exc |-> "ValueError", out |-> <<>>]
    ELSE LET d1 == [run_data EXCEPT !.runtime_s =
                        IF parts[6] # FAILED THEN Num(float(parts[6])) ELSE Null]
         IN  IF parts[7] # FAILED /\ ~IsFloat(parts[7])
             THEN [data |-> d1, exc |-> "ValueError", out |-> <<>>]
             ELSE [data |-> [d1 EXCEPT !.energy_j =
                                IF parts[7] # FAILED THEN Num(float(parts[7])) ELSE Null,
                                       !.status = parts[8]],
                   exc |-> "none",
                   out |-> <<E("parsed", "result.csv", <<>>)>>]

\* populate_run_data, lines 234-240, the body of the try block after the
\* file was read: the assignments made to run_data, in order, and the
\* exception that ends them (parts[6] is parts[7] here: sequences start at 1).
parse_body(run_data, parts) ==
    IF Len(parts) < MIN_FIELDS
    THEN [data |-> run_data, exc |-> "none", out |-> <<>>]
    ELSE IF parts[7] # FAILED /\ ~IsFloat(parts[7])
    THEN [data |-> run_data, exc |-> "ValueError", out |-> <<>>]
    ELSE LET d1 == [run_data EXCEPT !.runtime_s =
                        IF parts[7] # FAILED THEN Num(float(parts[7])) ELSE Null]
         IN  IF parts[8] # FAILED /\ ~IsFloat(parts[8])
             THEN [data |-> d1, exc |-> "ValueError", out |-> <<>>]
             ELSE [data |-> [d1 EXCEPT !.energy_j =
                                IF parts[8] # FAILED THEN Num(float(parts[8])) ELSE Null,
                                       !.status = parts[9]],
                   exc |-> "none",
                   out |-> <<E("parsed", "result.csv", <<>>)>>]

\* Lines 228-245 without the `except Exception` clause.
parse_result_uncaught(s, f) ==
    LET run_data == [energy_j |-> Null, runtime_s |-> Null, status |-> FAILED,
                     batch_num |-> s.current_batch]
    IN  IF "result.csv" \notin DOMAIN f.files
        THEN [data |-> run_data, exc |-> "none",
              out |-> <<E("not_found", "result.csv", <<>>)>>]
        ELSE LET r == parse_body(run_data, Split(Strip(f.files["result.csv"])))
             IN  [data |-> r.data, exc |-> r.exc, out |-> r.out]

\* populate_run_data, lines 228-245: the fields of the dictionary returned.
\* `except Exception` (line 241) ends the try block with a log line; what
\* was assigned before the exception stays in run_data.
parse_result(s, f) ==
    LET run_data == [energy_j |-> Null, runtime_s |-> Null, status |-> FAILED,
                     batch_num |-> s.current_batch]
    IN  IF "result.csv" \notin DOMAIN f.files
        THEN [data |-> run_data, exc |-> "none",
              out |-> <<E("not_found", "result.csv", <<>>)>>]
        ELSE LET r == parse_body(run_data, Split(Strip(f.files["result.csv"])))
             IN  [data |-> r.data,
                  exc  |-> "none",
                  out  |-> IF r.exc = "none" THEN r.out
                           ELSE <<E("parse_error", r.exc, <<>>)>>]

\* One dictionary kept on the instance and filled in again for every trial.
populate_run_data_shared_dict(s, f, h) ==
    LET r == parse_result(s, f)
    IN  [ref |-> 1, heap |-> (1 :> r.data) @@ h, exc |-> r.exc, out |-> r.out]

\* populate_run_data, lines 226-245: run_data is a dictionary created by the
\* call (line 228), filled in and returned; `ref` is its reference.
populate_run_data(s, f, h) ==
    LET r   == parse_result(s, f)
        new == Len(h) + 1
    IN  [ref |-> new, heap |-> Append(h, r.data), exc |-> r.exc, out |-> r.out]

\* The try block of the baseline populate_run_data (RunConfig.py lines
\* 277-299, Run_Config_2.py lines 215-231): as parse_body, and a record of
\* fewer than 9 fields is logged as "Invalid result format"; `except
\* Exception` ends the block with a log line.
baseline_parse_result(run_data, f) ==
    IF "result.csv" \notin DOMAIN f.files
    THEN [data |-> run_data, out |-> <<E("not_found", "result.csv", <<>>)>>]
    ELSE LET parts == Split(Strip(f.files["result.csv"]))
             r == parse_body(run_data, parts)
         IN  [data |-> r.data,
              out  |-> IF Len(parts) < MIN_FIELDS
                       THEN <<E("invalid_format", "result.csv", <<>>)>>
                       ELSE IF r.exc = "none" THEN r.out
                       ELSE <<E("parse_error", r.exc, <<>>)>>]

\* Assignment_3/baseline/RunConfig.py populate_run_data, lines 260-303:
\* run_data has no batch_num
RunConfig_populate_run_data(s, f, h) ==
    LET r == baseline_parse_result(
                 [energy_j |-> Null, runtime_s |-> Null, status |-> FAILED], f)
    IN  [ref |-> Len(h) + 1, heap |-> Append(h, r.data), exc |-> "none", out |-> r.out]

\* Assignment_3/baseline/Run_Config_2.py populate_run_data, lines 210-233
Run_Config_2_populate_run_data(s, f, h) ==
    LET r == baseline_parse_result(
                 [energy_j |-> Null, runtime_s |-> Null, status |-> FAILED,
                  batch_num |-> s.current_batch], f)
    IN  [ref |-> Len(h) + 1, heap |-> Append(h, r.data), exc |-> "none", out |-> r.out]

\* populate_run_data of the configuration of the instance
populate_run_data_of(s, f, h) ==
    CASE s.config = "Run_Config_batch" -> populate_run_data(s, f, h)
      [] s.config = "RunConfig" -> RunConfig_populate_run_data(s, f, h)
      [] s.config = "Run_Config_2" -> Run_Config_2_populate_run_data(s, f, h)

----------------------------------------------------------------------------
(* What the DUT can leave in results/run_<n>/ *)

RECURSIVE Line(_)
Line(fields) ==
    IF Len(fields) = 0 THEN <<>>
    ELSE IF Len(fields) = 1 THEN <<fields[1]>>
    ELSE <<fields[1], ",">> \o Line(Tail(fields))

Identity == <<"r1", "DaCapo", "G1", "Light", "openjdk", "0">>

GoodLine     == Line(Identity \o <<"12.5", "33.7", "SUCCESS", "169000">>) \o <<"\n">>
SentinelLine == Line(Identity \o <<"FAILED", "FAILED", "FAILED", "169000">>) \o <<"\n">>
ShortLine    == Line(Identity \o <<"12.5", "33.7">>) \o <<"\n">>
BadLine      == Line(Identity \o <<"12.5", "abc", "SUCCESS", "169000">>) \o <<"\n">>

ResultLines == {GoodLine, SentinelLine, ShortLine, BadLine}

EnergyCsv == <<"0", ",", "33.7", "\n">>

\* What one scp process does: it ends without the file, it ends having
\* written the file, it never ends (a stalled connection), or it cannot be
\* started (scp is not on the PATH).
NoTransfer == [kind |-> "exit", secs |-> 1, ok |-> FALSE, content |-> <<>>]

Transfer(content) == [kind |-> "exit", secs |-> 1, ok |-> TRUE, content |-> content]

StalledTransfer == [kind |-> "hung", secs |-> 0, ok |-> FALSE, content |-> <<>>]

NoScp == [kind |-> "nostart", secs |-> 0, ok |-> FALSE, content |-> <<>>]

ScpResults ==
    {("energy.csv" :> e) @@ ("result.csv" :> r) :
        e \in {NoTransfer, StalledTransfer, NoScp, Transfer(EnergyCsv)},
        r \in {NoTransfer, StalledTransfer, NoScp} \cup {Transfer(l) : l \in ResultLines}}

NoRemote == [kind |-> "none", secs |-> 0, rc |-> 0, err |-> <<>>]

\* No workload was started on the DUT yet.
NoWorkload == [trial |-> 0, timed_out |-> FALSE, running |-> FALSE]

----------------------------------------------------------------------------
(* The lifecycle driver: one action per hook call.  A hook that raises     *)
(* ends the experiment.                                                    *)

Init ==
    /\ self \in {RunnerConfig(n) : n \in 1..MaxBatchSize}
    /\ total_runs \in 1..MaxRuns
    /\ pc = "before_experiment"
    /\ run_nr = 1
    /\ ctx = NewContext(0)
    /\ fs = EmptyDir
    /\ trace = <<>>
    /\ results = <<>>
    /\ heap = <<>>
    /\ interrupted = FALSE
    /\ pauses = {}
    /\ raised = "none"
    /\ announced = 0
    /\ remote = NoRemote
    /\ dut = NoWorkload
    /\ sim = NoSim
    /\ plan = NoPlan

\* before_experiment, lines 88-91: what the ssh process of the connectivity
\* test does, and the timeout of the call
SshTestBehaviours ==
    {[kind |-> k, secs |-> 0, rc |-> 0, err |-> <<>>] : k \in {"nostart", "hung"}}
    \cup {[kind |-> "undecodable", secs |-> 1, rc |-> 0, err |-> <<>>]}
    \cup {[kind |-> "exit", secs |-> 1, rc |-> r, err |-> <<>>] : r \in {0, 255}}

ssh_test_timeout == [given |-> TRUE, secs |-> 10]

\* before_experiment, lines 92-98: the line logged for the test; every
\* exception of the call is caught and logged
ssh_test_report(beh) ==
    IF subprocess_run(beh, ssh_test_timeout) # "completed" THEN E("ssh_test", "error", <<>>)
    ELSE IF beh.rc = 0 THEN E("ssh_test", "ok", <<>>)
    ELSE E("ssh_test", "failed", beh.err)

\* before_experiment, lines 73-91: the totals are logged and the ssh test is
\* started; when ssh cannot be started the error is logged and the hook
\* returns, otherwise the hook waits for the test
BeforeExperiment ==
    /\ pc = "before_experiment"
    /\ announced' = total_batches(self, total_runs)
    /\ \E beh \in SshTestBehaviours :
         IF beh.kind = "nostart"
         THEN /\ trace' = trace \o <<ssh_test_report(beh)>>
              /\ pc' = "before_run"
         ELSE /\ trace' = trace
              /\ pc' = "ssh_test"
    /\ UNCHANGED <<self, total_runs, run_nr, ctx, fs, results, heap, interrupted, pauses, raised, remote, dut, sim, plan>>

\* before_experiment, lines 88-98: the ssh test ends or its 10 s pass, the
\* result is logged and the hook returns
SshTestEnds ==
    /\ pc = "ssh_test"
    /\ \E beh \in SshTestBehaviours :
         /\ beh.kind # "nostart"
         /\ trace' = trace \o <<ssh_test_report(beh)>>
    /\ pc' = "before_run"
    /\ UNCHANGED <<self, total_runs, run_nr, ctx, fs, results, heap, interrupted, pauses, raised, announced, remote, dut, sim, plan>>

\* SIGINT while a hook waits in subprocess.run (lines 88, 178, 209): the
\* KeyboardInterrupt is caught by none of the except clauses and leaves the
\* hook with nothing more assigned or logged
Interrupt ==
    /\ pc \in {"ssh_test", "interact_wait", "stop_measurement_wait"}
    /\ raised' = "KeyboardInterrupt"
    /\ pc' = "aborted"
    /\ UNCHANGED <<self, total_runs, run_nr, ctx, fs, trace, results, heap, interrupted, pauses, announced, remote, dut, sim, plan>>

\* before_run when no pause is due: the hook returns at once
BeforeRun ==
    /\ pc = "before_run"
    /\ ~should_pause(self)
    /\ pc' = "start_run"
    /\ UNCHANGED <<self, total_runs, run_nr, ctx, fs, trace, results, heap, interrupted, pauses, raised,
                   announced, remote, dut, sim, plan>>

\* before_run when a pause is due: the hook prompts and blocks on input()
BeforeRunPrompt ==
    /\ pc = "before_run"
    /\ should_pause(self)
    /\ pauses' = pauses \cup {run_nr}
    /\ pc' = "waiting"
    /\ UNCHANGED <<self, total_runs, run_nr, ctx, fs, trace, results, heap, interrupted, raised,
                   announced, remote, dut, sim, plan>>

\* the operator answers the prompt
OperatorInput ==
    /\ pc = "waiting"
    /\ \E key \in InputKeys :
         LET r == await_input(self, key) IN
         /\ self' = r.self
         /\ raised' = r.exc
         /\ interrupted' = (key = "SIGINT")
         /\ pc' = IF r.exc = "none" THEN "start_run" ELSE "aborted"
    /\ UNCHANGED <<total_runs, run_nr, ctx, fs, trace, results, heap, pauses, announced, remote, dut, sim, plan>>

StartRun ==
    /\ pc = "start_run"
    /\ self' = start_run(self)
    /\ ctx' = TrialContext(run_nr)
    /\ fs' = EmptyDir
    /\ trace' = <<>>
    /\ remote' = NoRemote
    /\ pc' = "start_measurement"
    /\ UNCHANGED <<total_runs, run_nr, results, heap, interrupted, pauses, raised, announced, dut, sim, plan>>

StartMeasurement ==
    /\ pc = "start_measurement"
    /\ self.config = "Run_Config_batch"
    /\ ctx' = start_measurement(self, ctx)
    /\ pc' = "interact"
    /\ UNCHANGED <<self, total_runs, run_nr, fs, trace, results, heap, interrupted, pauses, raised, announced,
                   remote, dut, sim, plan>>

\* the remote command has been started and has not ended
RemoteRunning == [kind |-> "running", secs |-> 0, rc |-> 0, err |-> <<>>]

\* interact, lines 175-178: the command line is built from the context and
\* ssh is started; the hook then waits for it in subprocess.run
Interact ==
    /\ pc = "interact"
    /\ \E beh \in BehavioursFor(self) :
         LET r == interact_of(self, ctx, beh) IN
         IF r.exc \in {"AttributeError", "OSError"}
         THEN /\ remote' = IF r.exc = "OSError" THEN beh ELSE remote
              /\ ctx' = r.ctx
              /\ trace' = trace \o r.out
              /\ raised' = r.exc
              /\ pc' = "aborted"
              /\ dut' = dut
         ELSE /\ remote' = RemoteRunning
              /\ pc' = "interact_wait"
              /\ dut' = [trial |-> run_nr, timed_out |-> FALSE, running |-> TRUE]
              /\ UNCHANGED <<ctx, trace, raised>>
    /\ UNCHANGED <<self, total_runs, run_nr, fs, results, heap, interrupted, pauses, announced, sim, plan>>

\* interact, lines 178-191: the remote command ends or the timeout passes;
\* the outcome is stored in the context and logged
InteractEnds ==
    /\ pc = "interact_wait"
    /\ \E beh \in BehavioursFor(self) :
         LET r == interact_of(self, ctx, beh) IN
         /\ beh.kind # "nostart"
         /\ remote' = beh
         /\ ctx' = r.ctx
         /\ trace' = trace \o r.out
         /\ raised' = r.exc
         /\ pc' = IF ~r.returns THEN "interact_blocked"
                  ELSE IF r.exc = "none" THEN "stop_measurement" ELSE "aborted"
         /\ dut' = [trial     |-> run_nr,
                    timed_out |-> \E i \in 1..Len(r.out) :
                                     r.out[i].ev = "outcome" /\ r.out[i].tag = "TIMEOUT",
                    running   |-> r.abandoned \/ ~r.returns]
    /\ UNCHANGED <<self, total_runs, run_nr, fs, results, heap, interrupted, pauses, announced, sim, plan>>

\* The workload left on the DUT by an abandoned remote command ends by itself.
DutWorkloadEnds ==
    /\ dut.running
    /\ pc \notin {"done", "aborted", "interact_wait"}
    /\ dut' = [dut EXCEPT !.running = FALSE]
    /\ UNCHANGED <<self, total_runs, pc, run_nr, ctx, fs, trace, results, heap, interrupted, pauses,
                   raised, announced, remote, sim, plan>>

\* the transfers the hook has started in the current trial
Started == Len(SelectSeq(trace, LAMBDA e : e.ev = "scp"))

\* what a transfer that has ended did, as the run directory shows it
Ended(fname) ==
    IF fname \in DOMAIN fs.files THEN Transfer(fs.files[fname]) ELSE NoTransfer

\* stop_measurement, lines 196-209: the return code is tested, the directory
\* made and the first scp started; the hook then waits for it
StopMeasurement ==
    /\ pc = "stop_measurement"
    /\ \E scp \in ScpResults :
         LET r == stop_measurement(ctx, fs, scp) IN
         /\ scp[FNAMES[1]].kind \in {"hung", "nostart"}
         /\ fs' = r.fs
         /\ trace' = trace \o r.out
         /\ raised' = r.exc
         /\ pc' = IF r.exc # "none" THEN "aborted"
                  ELSE IF r.returns THEN "stop_run" ELSE "stop_measurement_wait"
    /\ UNCHANGED <<self, total_runs, run_nr, ctx, results, heap, interrupted, pauses, announced, remote, dut, sim, plan>>

\* stop_measurement, lines 209-213 and the next pass of the loop: the scp
\* the hook waits for ends (or never does), its result is logged and the
\* scp of the next file is started.  The transfers before it ended as the
\* run directory shows.
TransferEnds ==
    /\ pc = "stop_measurement_wait"
    /\ \E scp \in ScpResults :
         LET k == Started
             before == stop_measurement(ctx, fs, [scp EXCEPT ![FNAMES[k]] = StalledTransfer])
             r == stop_measurement(ctx, fs, scp)
         IN  /\ \A j \in 1..(k - 1) : scp[FNAMES[j]] = Ended(FNAMES[j])
             /\ scp[FNAMES[k]].kind # "nostart"
             /\ \A j \in (k + 1)..Len(FNAMES) : scp[FNAMES[j]].kind \in {"hung", "nostart"}
             /\ fs' = r.fs
             /\ trace' = trace \o SubSeq(r.out, Len(before.out) + 1, Len(r.out))
             /\ raised' = r.exc
             /\ pc' = IF scp[FNAMES[k]].kind = "hung" THEN "stop_measurement_blocked"
                      ELSE IF r.exc # "none" THEN "aborted"
                      ELSE IF r.returns THEN "stop_run" ELSE "stop_measurement_wait"
    /\ UNCHANGED <<self, total_runs, run_nr, ctx, results, heap, interrupted, pauses, announced, remote, dut, sim, plan>>

StopRun ==
    /\ pc = "stop_run"
    /\ pc' = "populate_run_data"
    /\ UNCHANGED <<self, total_runs, run_nr, ctx, fs, trace, results, heap, interrupted, pauses, raised,
                   announced, remote, dut, sim, plan>>

\* the driver stores the returned run_data in the run table and goes on to
\* the next row
PopulateRunData ==
    /\ pc = "populate_run_data"
    /\ LET r == populate_run_data_of(self, fs, heap) IN
         /\ trace' = trace \o r.out
         /\ raised' = r.exc
         /\ IF r.exc # "none"
            THEN /\ pc' = "aborted"
                 /\ UNCHANGED <<results, heap, run_nr>>
            ELSE /\ results' = Append(results, r.ref)
                 /\ heap' = r.heap
                 /\ IF run_nr < total_runs
                    THEN run_nr' = run_nr + 1 /\ pc' = "before_run"
                    ELSE run_nr' = run_nr /\ pc' = "after_experiment"
    /\ UNCHANGED <<self, total_runs, ctx, fs, interrupted, pauses, announced, remote, dut, sim, plan>>

AfterExperiment ==
    /\ pc = "after_experiment"
    /\ pc' = "done"
    /\ UNCHANGED <<self, total_runs, run_nr, ctx, fs, trace, results, heap, interrupted, pauses, raised,
                   announced, remote, dut, sim, plan>>

Next ==
    \/ BeforeExperiment
    \/ SshTestEnds
    \/ Interrupt
    \/ BeforeRun
    \/ BeforeRunPrompt
    \/ OperatorInput
    \/ StartRun
    \/ StartMeasurement
    \/ Interact
    \/ InteractEnds
    \/ StopMeasurement
    \/ TransferEnds
    \/ StopRun
    \/ PopulateRunData
    \/ AfterExperiment
    \/ DutWorkloadEnds

Spec == Init /\ [][Next]_vars

----------------------------------------------------------------------------
(* The remote command for every trial of a plan.  A trial of any factor    *)
(* combination, repetition and run number stands before start_measurement, *)
(* in the batch its run number falls in.                                   *)

\* the largest repetition index and the largest run number tried
MaxRep == 1
MaxRunNr == 10

RunVariations ==
    [subject : {SUBJECTS[i] : i \in 1..Len(SUBJECTS)},
     gc : {GCS[i] : i \in 1..Len(GCS)},
     workload : {WORKLOADS[i] : i \in 1..Len(WORKLOADS)},
     jdk : {JDKS[i] : i \in 1..Len(JDKS)},
     rep : 0..MaxRep]

CmdInit ==
    /\ total_runs = MaxRunNr
    /\ pc = "start_measurement"
    /\ run_nr \in {1, MaxRunNr}
    /\ \/ \E size \in 1..MaxBatchSize :
             LET batch == (run_nr + size - 1) \div size IN
          \E config \in CONFIGS \ {"RunConfig"} :
             self = [RunnerConfig(size) EXCEPT !.current_batch = batch,
                                               !.runs_in_batch = run_nr - (batch - 1) * size,
                                               !.config = config]
       \/ self = RunConfig_RunnerConfig
    /\ \E v \in RunVariations : ctx = [NewContext(run_nr) EXCEPT !.run_variation = v]
    /\ fs = EmptyDir
    /\ trace = <<>>
    /\ results = <<>>
    /\ heap = <<>>
    /\ interrupted = FALSE
    /\ pauses = {}
    /\ raised = "none"
    /\ announced = IF self.config = "RunConfig" THEN 0 ELSE total_batches(self, MaxRunNr)
    /\ remote = NoRemote
    /\ dut = NoWorkload
    /\ sim = NoSim
    /\ plan = NoPlan

\* start_measurement of Assignment_3/baseline/RunConfig.py
RunConfigStartMeasurement ==
    /\ pc = "start_measurement"
    /\ self.config = "RunConfig"
    /\ ctx' = RunConfig_start_measurement(self, ctx)
    /\ pc' = "interact"
    /\ UNCHANGED <<self, total_runs, run_nr, fs, trace, results, heap, interrupted, pauses, raised, announced,
                   remote, dut, sim, plan>>

\* start_measurement of Assignment_3/baseline/Run_Config_2.py
RunConfig2StartMeasurement ==
    /\ pc = "start_measurement"
    /\ self.config = "Run_Config_2"
    /\ ctx' = Run_Config_2_start_measurement(self, ctx)
    /\ pc' = "interact"
    /\ UNCHANGED <<self, total_runs, run_nr, fs, trace, results, heap, interrupted, pauses, raised, announced,
                   remote, dut, sim, plan>>

\* A trial of each configuration from start_measurement to the run_data
\* handed to the driver.  Interact, InteractEnds and PopulateRunData run
\* the hook of the instance's configuration; the stop_measurement of the
\* three files makes the same two scp calls in the same order (unrolled in
\* RunConfig.py lines 213-250, a loop in Run_Config_2.py lines 191-203) and
\* their stop_run only logs.
CmdNext ==
    \/ StartMeasurement
    \/ RunConfigStartMeasurement
    \/ RunConfig2StartMeasurement
    \/ Interact
    \/ InteractEnds
    \/ StopMeasurement
    \/ TransferEnds
    \/ StopRun
    \/ PopulateRunData

CmdSpec == CmdInit /\ [][CmdNext]_vars

----------------------------------------------------------------------------
(* The result parser on every shape of result.csv.  A trial whose remote  *)
(* command exited with 0 stands before stop_run with the file that scp    *)
(* left in its run directory; the record is built field by field.         *)

\* Texts of one field of the record, with what the documented format calls
\* them: a number (float() accepts surrounding blanks), the sentinel, or
\* neither.  `val` is the number in tenths.
FieldCases ==
    { [text |-> <<"12.5">>,        kind |-> "number",   val |-> 125],
      [text |-> <<"33.7">>,        kind |-> "number",   val |-> 337],
      [text |-> <<"0">>,           kind |-> "number",   val |-> 0],
      [text |-> <<" ", "12.5">>,   kind |-> "number",   val |-> 125],
      [text |-> <<"FAILED">>,      kind |-> "sentinel", val |-> 0],
      [text |-> <<"abc">>,         kind |-> "other",    val |-> 0],
      [text |-> <<>>,              kind |-> "other",    val |-> 0],
      [text |-> <<" ", "FAILED">>, kind |-> "other",    val |-> 0] }

StatusTexts == {"SUCCESS", "FAILED", "TIMEOUT"}

\* Fields after the ninth: none, the timestamp, the timestamp and one more.
MaxExtraFields == 2

Trailer == [i \in 1..MaxExtraFields |-> IF i = 1 THEN <<"169000">> ELSE <<"x">>]

\* ','.join(fields), each field a sequence of tokens.
RECURSIVE Join(_)
Join(fields) ==
    IF Len(fields) = 0 THEN <<>>
    ELSE IF Len(fields) = 1 THEN fields[1]
    ELSE fields[1] \o <<",">> \o Join(Tail(fields))

IdentityFields == [i \in 1..Len(Identity) |-> <<Identity[i]>>]

\* run_num,subject,gc,workload,jdk,rep,runtime_s,energy_j,status[,timestamp..]
Record(f6, f7, st, extra) ==
    Join(IdentityFields \o <<f6.text, f7.text, <<st>>>> \o SubSeq(Trailer, 1, extra))
        \o <<"\n">>

FullRecords ==
    {Record(f6, f7, st, n) : f6 \in FieldCases, f7 \in FieldCases,
                             st \in StatusTexts, n \in 0..MaxExtraFields}

\* The first k fields of a well-formed record, k < 9; k = 0 is the empty file.
ShortRecord(k) ==
    Join(SubSeq(IdentityFields \o <<<<"12.5">>, <<"33.7">>>>, 1, k)) \o <<"\n">>

ShortRecords == {ShortRecord(k) : k \in 0..(MIN_FIELDS - 1)} \cup {<<>>}

ParserScp ==
    {("energy.csv" :> NoTransfer) @@ ("result.csv" :> r) :
        r \in {NoTransfer} \cup
              {Transfer(l) : l \in FullRecords \cup ShortRecords}}

RemoteSuccess == [kind |-> "exit", secs |-> 10, rc |-> 0, err |-> <<>>]

ParserInit ==
    \E scp \in ParserScp :
        LET s == start_run(RunnerConfig(MaxBatchSize))
            c == interact(start_measurement(s, NewContext(1)), RemoteSuccess)
            m == stop_measurement(c.ctx, EmptyDir, scp)
        IN  /\ self = s
            /\ total_runs = 1
            /\ pc = "stop_run"
            /\ run_nr = 1
            /\ ctx = c.ctx
            /\ fs = m.fs
            /\ trace = c.out \o m.out
            /\ results = <<>>
            /\ heap = <<>>
            /\ interrupted = FALSE
            /\ pauses = {}
            /\ raised = "none"
            /\ announced = total_batches(s, 1)
            /\ remote = RemoteSuccess
            /\ dut = [trial |-> 1, timed_out |-> FALSE, running |-> c.abandoned]
            /\ sim = NoSim
            /\ plan = NoPlan

ParserNext == StopRun \/ PopulateRunData \/ AfterExperiment

ParserSpec == ParserInit /\ [][ParserNext]_vars

----------------------------------------------------------------------------
(* Observations used by the properties *)

\* the run_data recorded for trial k
Result(k) == heap[results[k]]

\* the events of one kind in the current trial's trace, in order
Events(kind) == SelectSeq(trace, LAMBDA e : e.ev = kind)

\* interact has returned for the trial that `remote` describes
Returned == remote.kind \in {"exit", "hung"} /\ raised \notin {"OSError", "AttributeError"}

\* the trials for which before_run has decided whether to pause
Decided == IF pc \in {"before_experiment", "ssh_test", "before_run"} THEN run_nr - 1 ELSE run_nr

CeilDiv(a, b) == (a + b - 1) \div b

IsPrefixOf(p, t) == Len(p) <= Len(t) /\ SubSeq(t, 1, Len(p)) = p

----------------------------------------------------------------------------
\* interact has ended for a trial whose remote command was run to its end
\* or to the timeout
Attempted ==
    /\ remote.kind \in {"exit", "hung", "undecodable"}
    /\ raised \notin {"OSError", "AttributeError"}

(* C1: once interact has ended for a trial whose remote command was run,   *)
(* the trial's trace holds exactly one outcome line; it is TIMEOUT when    *)
(* the command exceeded the timeout, SUCCESS when it ended in time with    *)
(* exit code 0, and FAILED when it ended in time with another exit code,   *)
(* and then a non-empty excerpt of stderr is logged whenever stderr was    *)
(* not empty.                                                              *)
C1_EveryCommandClassified ==
    Attempted =>
        /\ Len(Events("outcome")) = 1
        /\ TimeoutExpired(remote) => Events("outcome")[1].tag = "TIMEOUT"
        /\ (~TimeoutExpired(remote) /\ remote.rc = 0) =>
               Events("outcome")[1].tag = "SUCCESS"
        /\ (~TimeoutExpired(remote) /\ remote.rc # 0) =>
               /\ Events("outcome")[1].tag = "FAILED"
               /\ Len(Events("stderr")) = 1
               /\ IsPrefixOf(Events("stderr")[1].text, remote.err)
               /\ remote.err # <<>> => Events("stderr")[1].text # <<>>

(* C2: confirmation has been requested exactly before the trials N+1,      *)
(* 2N+1, 3N+1, ... among those reached so far, N being the batch size, and *)
(* before no other trial (so never before trial 1).                        *)
C2_PausesExactlyAtBatchStarts ==
    pauses = {t \in 1..Decided : t > 1 /\ (t - 1) % self.BATCH_SIZE = 0}

C2_WitnessTwoPauses ==
    /\ pc = "done"
    /\ self.BATCH_SIZE = 2
    /\ total_runs = 5
    /\ pauses = {3, 5}

(* C3: the batch number recorded for the trial with sequence number s is   *)
(* ceil(s / batch_size); the first is 1.                                   *)
C3_BatchNumberIsCeil ==
    \A k \in 1..Len(results) :
        Result(k).batch_num = CeilDiv(k, self.BATCH_SIZE)

C3_WitnessThirdBatch ==
    /\ Len(results) = 5
    /\ self.BATCH_SIZE = 2
    /\ Result(1).batch_num = 1
    /\ Result(5).batch_num = 3

(* C4: an operator interrupt during the wait for confirmation leaves       *)
(* before_run as KeyboardInterrupt; the experiment is aborted and the      *)
(* trial that was pending is never started, nor any later one.             *)
C4_InterruptPropagates ==
    interrupted =>
        /\ raised = "KeyboardInterrupt"
        /\ pc = "aborted"
        /\ ctx.run_nr < run_nr
        /\ ~ENABLED Next

C4_WitnessInterrupted ==
    /\ interrupted
    /\ run_nr = 3
    /\ Len(results) = 2

\* the rows recorded so far are still there, with the same content
PriorResultsKept ==
    /\ Len(results') >= Len(results)
    /\ \A k \in 1..Len(results) :
          /\ results'[k] = results[k]
          /\ heap'[results'[k]] = heap[results[k]]

(* C5: the step in which the operator interrupts a pause, and the step in  *)
(* which the remote command times out, leave the run table and every       *)
(* recorded run_data as they were; and through the rest of a timed-out     *)
(* trial the results of the earlier trials stay the same.                  *)
C5_PriorResultsUnchanged ==
    [][ /\ (interrupted' /\ ~interrupted) =>
              (PriorResultsKept /\ Len(results') = Len(results))
        /\ (pc = "interact_wait" /\ TimeoutExpired(remote')) =>
              (PriorResultsKept /\ Len(results') = Len(results))
        /\ TimeoutExpired(remote) => PriorResultsKept ]_vars

\* a trial that timed out after a trial recorded with status SUCCESS
C5_WitnessTimeoutAfterSuccess ==
    /\ Len(results) = 2
    /\ Result(1).status = <<"SUCCESS">>
    /\ TimeoutExpired(remote)
    /\ ctx.run_nr = 2

(* C6: no hook raises because of a per-trial fault: the only exception     *)
(* that ever leaves a hook is the operator's cancellation.                 *)
C6_OnlyCancellationAborts ==
    raised \in {"none", "KeyboardInterrupt"}

(* C7: a run that has ended without being cancelled (no interrupt by the    *)
(* operator left a hook) has recorded one result for every trial of the    *)
(* plan.                                                                   *)
C7_EveryTrialReported ==
    (pc \in {"done", "aborted"} /\ raised # "KeyboardInterrupt") =>
        Len(results) = total_runs

(* C8: a trial whose remote command timed out is recorded with status     *)
(* TIMEOUT, distinct from FAILED and MISSING, and with runtime and energy  *)
(* null.                                                                   *)
C8_TimeoutRecordedAsTimeout ==
    (TimeoutExpired(remote) /\ Len(results) = ctx.run_nr) =>
        /\ Result(ctx.run_nr).status = <<"TIMEOUT">>
        /\ Result(ctx.run_nr).runtime_s = Null
        /\ Result(ctx.run_nr).energy_j = Null

(* C9: after a FAILED or TIMEOUT outcome no transfer is issued and no      *)
(* local result directory is created for that trial.                       *)
C9_RetrievalOnlyOnSuccess ==
    (Returned /\ (TimeoutExpired(remote) \/ remote.rc # 0)) =>
        /\ Events("scp") = <<>>
        /\ Events("mkdir") = <<>>
        /\ fs = EmptyDir

C9_WitnessNoRetrieval ==
    /\ pc = "stop_run"
    /\ remote.kind = "exit"
    /\ ~TimeoutExpired(remote)
    /\ remote.rc = 1

\* stop_measurement has returned after a SUCCESS outcome
Retrieved == pc \in {"stop_run", "populate_run_data"} /\ ~TimeoutExpired(remote) /\ remote.rc = 0

\* the line stop_measurement logs for a file
Report(fname) ==
    E(IF fname \in DOMAIN fs.files THEN "retrieved" ELSE "retrieve_failed", fname, <<>>)

(* C10: once stop_measurement has returned after a SUCCESS outcome, the    *)
(* trace shows the directory created first, then one transfer attempt for  *)
(* energy.csv and one for result.csv, each followed by its report, which   *)
(* is a success exactly when the file arrived; nothing was raised.         *)
C10_BothFilesAttempted ==
    Retrieved =>
        /\ raised = "none"
        /\ "dut_results" \in fs.dirs
        /\ Len(trace) >= 6
        /\ SubSeq(trace, 1, 6) =
              <<E("outcome", "SUCCESS", <<>>),
                E("mkdir", "dut_results", <<>>),
                E("scp", "energy.csv", <<>>), Report("energy.csv"),
                E("scp", "result.csv", <<>>), Report("result.csv")>>
        /\ Len(Events("scp")) = 2

\* the first transfer failed and the second was still made, and succeeded
C10_WitnessFirstFailed ==
    /\ pc = "stop_run"
    /\ DOMAIN fs.files = {"result.csv"}
    /\ Events("retrieve_failed") = <<E("retrieve_failed", "energy.csv", <<>>)>>
    /\ Events("retrieved") = <<E("retrieved", "result.csv", <<>>)>>

----------------------------------------------------------------------------
(* The result parser (ParserSpec).                                         *)

\* The trial's result.csv is the record made of these fields.
Given(f6, f7, st, extra) ==
    /\ "result.csv" \in DOMAIN fs.files
    /\ fs.files["result.csv"] = Record(f6, f7, st, extra)

\* populate_run_data has returned the trial's record.
Recorded == Len(results) = 1

\* What the documented format says a field that is a number or the sentinel
\* stands for.
Expected(f) == IF f.kind = "number" THEN Num(f.val) ELSE Null

Parseable == {f \in FieldCases : f.kind \in {"number", "sentinel"}}

\* C11: for every record of at least nine fields whose fields 6 and 7 are
\* each a number or the sentinel FAILED, the parser returns runtime = field 6,
\* energy = field 7 and status = field 8; the sentinel gives null for that
\* field alone and the rest of the record is still parsed.
C11_FieldsByPosition ==
    \A f6 \in Parseable, f7 \in Parseable, st \in StatusTexts, n \in 0..MaxExtraFields :
        (Recorded /\ Given(f6, f7, st, n)) =>
            /\ Result(1).runtime_s = Expected(f6)
            /\ Result(1).energy_j = Expected(f7)
            /\ Result(1).status = <<st>>
            /\ Events("parse_error") = <<>>

\* a record whose runtime is the sentinel and whose energy is a number, with
\* two fields after the status
C11_WitnessSentinelRuntime ==
    /\ Recorded
    /\ \E f7 \in Parseable :
          /\ f7.kind = "number"
          /\ Given([text |-> <<"FAILED">>, kind |-> "sentinel", val |-> 0], f7,
                   "SUCCESS", MaxExtraFields)
          /\ Result(1).runtime_s = Null
          /\ Result(1).energy_j = Num(f7.val)

\* The trial's result.csv has fewer than nine fields.
GivenShort == "result.csv" \in DOMAIN fs.files /\ fs.files["result.csv"] \in ShortRecords

\* C12: a record with fewer than nine fields gives status MISSING and null
\* numeric fields (runtime and energy).
C12_ShortRecordIsMissing ==
    (Recorded /\ GivenShort) =>
        /\ Result(1).status = <<"MISSING">>
        /\ Result(1).runtime_s = Null
        /\ Result(1).energy_j = Null

\* C13: a record of at least nine fields in which field 6 or field 7 is
\* neither a number nor the sentinel gives null for both numeric fields,
\* also for the one that was valid, and status FAILED.
C13_BadFieldNullsBoth ==
    \A f6 \in FieldCases, f7 \in FieldCases, st \in StatusTexts, n \in 0..MaxExtraFields :
        (Recorded /\ Given(f6, f7, st, n) /\ "other" \in {f6.kind, f7.kind}) =>
            /\ Result(1).runtime_s = Null
            /\ Result(1).energy_j = Null
            /\ Result(1).status = FAILED

\* C14: populate_run_data never raises on bad input (missing file, empty
\* file, too few fields, a field that is not a number): the hook returns a
\* record and the experiment goes on.
C14_ParserNeverRaises ==
    /\ raised = "none"
    /\ pc # "aborted"
    /\ pc \in {"after_experiment", "done"} => Recorded

\* a record whose energy field is not a number has been turned into a result
C14_WitnessBadFieldRecorded ==
    /\ Recorded
    /\ pc = "done"
    /\ \E f6 \in FieldCases, f7 \in FieldCases :
          /\ f7.kind = "other"
          /\ Given(f6, f7, "SUCCESS", 1)
    /\ Events("parse_error") # <<>>

\* The field texts of the trial's record, when it has nine fields or more.
SentinelIn(field) ==
    \E f6 \in FieldCases, f7 \in FieldCases, st \in StatusTexts, n \in 0..MaxExtraFields :
        /\ Given(f6, f7, st, n)
        /\ IF field = "runtime_s" THEN f6.kind = "sentinel" ELSE f7.kind = "sentinel"

\* C15: in every result a numeric field is null exactly when the status is
\* not SUCCESS or the DUT reported the sentinel for it: no SUCCESS with a
\* null that is not the sentinel's, no other status with a number.
C15_NullIffNotSuccessOrSentinel ==
    Recorded =>
        /\ Result(1).runtime_s = Null
              <=> (Result(1).status # <<"SUCCESS">> \/ SentinelIn("runtime_s"))
        /\ Result(1).energy_j = Null
              <=> (Result(1).status # <<"SUCCESS">> \/ SentinelIn("energy_j"))

----------------------------------------------------------------------------
(* Waiting for the DUT (Spec).                                             *)

\* The remote command of the current trial did not end within the timeout.
Overdue == remote.kind = "hung" \/ (remote.kind = "exit" /\ remote.secs > SSH_TIMEOUT_S)

\* C16: the timeout is enforced: whatever the remote command does, also when
\* it never ends, interact ends; once the timeout has elapsed it returns
\* with the TIMEOUT outcome (return code -1, stderr "TIMEOUT"), so the
\* controller never waits for ever on the remote command.
C16_TimeoutEnforced ==
    /\ pc # "interact_blocked"
    /\ Overdue =>
          /\ pc # "interact"
          /\ Events("outcome") = <<E("outcome", "TIMEOUT", <<>>)>>
          /\ ctx.ssh_returncode = -1
          /\ ctx.ssh_stderr = TIMEOUT_TEXT

\* the remote command of trial 1 never ended and trial 2 is being prepared
C16_WitnessHungThenNextTrial ==
    /\ remote.kind = "hung"
    /\ pc = "before_run"
    /\ run_nr = 2
    /\ Len(results) = 1

\* C17: the controller waits only for the remote command (bounded) and for
\* the operator: wherever it can take no further step, the experiment has
\* ended (all trials reported, or aborted); no other step of a trial, the
\* file transfers in particular, waits for ever on the DUT.
C17_OnlyBoundedWaits ==
    (~ENABLED Next) => pc \in {"done", "aborted"}

\* The controller issues a remote command in this step.
IssuesCommand ==
    /\ pc = "interact"
    /\ pc' = "interact_wait"
    /\ remote' = RemoteRunning

\* C18: trials run strictly one at a time on the DUT: the remote command of
\* a trial is never issued while the workload of the trial before it is
\* still running on the DUT, whatever that trial's outcome was.
C18_NoOverlapOnDut ==
    [][IssuesCommand => ~dut.running]_vars

----------------------------------------------------------------------------
(* The remote command (CmdSpec).                                           *)

\* The command of the current trial has been built.
Built == "ssh_command" \in ctx.set

\* The words of a text: the tokens between blanks, joined.
RECURSIVE Words(_)
Words(t) ==
    IF \A i \in 1..Len(t) : t[i] # " "
    THEN <<t>>
    ELSE LET i == CHOOSE j \in 1..Len(t) : t[j] = " " /\ \A k \in 1..(j - 1) : t[k] # " "
         IN  <<SubSeq(t, 1, i - 1)>> \o Words(SubSeq(t, i + 1, Len(t)))

\* Decimal numerals of the numbers that occur as repetition or run number.
Numeral(n) ==
    CASE n = 0 -> <<"0">> [] n = 1 -> <<"1">> [] n = 2 -> <<"2">> [] n = 3 -> <<"3">>
      [] n = 4 -> <<"4">> [] n = 5 -> <<"5">> [] n = 6 -> <<"6">> [] n = 7 -> <<"7">>
      [] n = 8 -> <<"8">> [] n = 9 -> <<"9">> [] n = 10 -> <<"1", "0">>
      [] n = 11 -> <<"1", "1">> [] n = 12 -> <<"1", "2">>

\* The directory a configuration changes to on the DUT.
RemoteDir(config) ==
    CASE config = "Run_Config_batch" -> laptop_exp_dir
      [] config = "RunConfig" -> RunConfig_laptop_exp_dir
      [] config = "Run_Config_2" -> Run_Config_2_laptop_exp_dir

\* C19: the remote command of every trial is the single line
\* `cd <remote_dir> && ./<script> <subject> <gc> <workload> <jdk> <rep> <run number>`:
\* the six arguments are the trial's factor values, repetition index and
\* run number, in that order, and the script is one of the two script names.
C19_CommandLine ==
    Built =>
        LET w == Words(ctx.ssh_command)
            v == ctx.run_variation
        IN  /\ \A i \in 1..Len(ctx.ssh_command) : ctx.ssh_command[i] # "\n"
            /\ Len(w) = 10
            /\ SubSeq(w, 1, 3) = << <<"cd">>, <<RemoteDir(self.config)>>, <<"&&">> >>
            /\ \E script \in {SERVICE_SCRIPT, BENCHMARK_SCRIPT} : w[4] = <<"./", script>>
            /\ SubSeq(w, 5, 10) = << <<v.subject>>, <<v.gc>>, <<v.workload>>, <<v.jdk>>,
                                     Numeral(v.rep), Numeral(ctx.run_nr) >>

\* The script named in the command.
ScriptOf(cmd) == Words(cmd)[4][2]

\* C20: the script is a function of the subject alone: PetClinic, TodoApp
\* and ANDIE get the service script, every other declared subject gets the
\* benchmark script, whatever gc, workload, jdk, repetition, run number and
\* batch state are.
C20_ScriptBySubject ==
    Built =>
        /\ ctx.run_variation.subject \in {"PetClinic", "TodoApp", "ANDIE"}
              => ScriptOf(ctx.ssh_command) = "Service_Apps_Run_Single_Experiment.sh"
        /\ ctx.run_variation.subject \in
              {"DaCapo", "CLBG-BinaryTrees", "CLBG-Fannkuch", "CLBG-NBody", "Rosetta"}
              => ScriptOf(ctx.ssh_command) = "Run_Single_Experiment.sh"

----------------------------------------------------------------------------
(* The process-wide random generator (module random).  A generator state   *)
(* is the seed it was last seeded with and the number of draws made since. *)
(* A draw of random.gauss(mu, sigma) is mu + sigma * z; the model takes z  *)
(* from the integers -MaxZ..MaxZ, as a fixed function of the generator     *)
(* state, so that equal states give equal draws and the seeds between them *)
(* cover every pair of first and second draw.                              *)

MaxZ == 4

ZBase == 2 * MaxZ + 1

Seeds == 0..(ZBase * ZBase - 1)

\* random.seed(seed)
random_seed(seed) == [seed |-> seed, pos |-> 0]

\* the standard normal deviate of the next draw, in whole sigmas
Z(rng) ==
    LET d == IF rng.pos % 2 = 0 THEN rng.seed % ZBase
             ELSE (rng.seed \div ZBase) % ZBase
    IN  ((d + 2 * (rng.pos \div 2)) % ZBase) - MaxZ

\* the generator after one draw
Drawn(rng) == [rng EXCEPT !.pos = @ + 1]

\* energy_mock.py line 16: def __init__(self, seed: int = 42)
DEFAULT_SEED == 42

----------------------------------------------------------------------------
(* Strings of the command line are sequences of characters, so that the    *)
(* substring tests of the source are substring tests in the model.         *)

\* needle in hay
Contains(hay, needle) ==
    \E i \in 1..(Len(hay) - Len(needle) + 1) :
        SubSeq(hay, i, i + Len(needle) - 1) = needle

\* ' '.join(command)
RECURSIVE join(_)
join(command) ==
    IF Len(command) = 0 THEN <<>>
    ELSE IF Len(command) = 1 THEN command[1]
    ELSE command[1] \o <<" ">> \o join(Tail(command))

s_java == <<"j", "a", "v", "a">>
s_true == <<"t", "r", "u", "e">>
s_light == <<"l", "i", "g", "h", "t">>
s_medium == <<"m", "e", "d", "i", "u", "m">>
s_heavy == <<"h", "e", "a", "v", "y">>
s_version == <<"-", "v", "e", "r", "s", "i", "o", "n">>
s_XX == <<"-", "X", "X", ":", "+", "U", "s", "e">>
s_SerialGC == s_XX \o <<"S", "e", "r", "i", "a", "l", "G", "C">>
s_ParallelGC == s_XX \o <<"P", "a", "r", "a", "l", "l", "e", "l", "G", "C">>
s_G1GC == s_XX \o <<"G", "1", "G", "C">>
s_SimpleGCTest == <<"S", "i", "m", "p", "l", "e", "G", "C", "T", "e", "s", "t">>
s_jar == <<"-", "j", "a", "r">>
s_highlight_jar == <<"h", "i", "g", "h">> \o s_light \o <<".", "j", "a", "r">>

----------------------------------------------------------------------------
(* energy_mock.py, class MockEnergyMeasurement.  Numbers are fixed point:  *)
(* a time is in tenths of a second, a base power in units of 4 W, a        *)
(* workload multiplier in tenths, a GC multiplier in hundredths, the       *)
(* variance factor 1 + 0.05 z in twentieths, and so an energy in ticks of  *)
(* 4 * 0.1 * 0.01 * 0.05 * 0.1 J = 0.00002 J.                              *)

\* line 54: base_power_watts = 8.0
BASE_POWER == 2
\* line 58: base_power_watts = 12.0
JAVA_POWER == 3

\* lines 81-88
WORKLOAD_LIGHT == 10
WORKLOAD_MEDIUM == 18
WORKLOAD_HEAVY == 25
WORKLOAD_OTHER == 10

\* lines 94-101
GC_SERIAL == 85
GC_PARALLEL == 100
GC_G1 == 112
GC_DEFAULT == 95

\* line 67: random.gauss(1.0, 0.05) is (VARIANCE_UNIT + z) twentieths
VARIANCE_UNIT == 20
\* line 74: random.gauss(0, 0.5) is z times 0.5 J
NOISE_SIGMA == 25000
\* line 75: max(0.1, ...)
ENERGY_FLOOR == 5000

_get_workload_multiplier(command) ==
    LET command_str == join(command)
    IN  IF Contains(command_str, s_light) THEN WORKLOAD_LIGHT
        ELSE IF Contains(command_str, s_medium) THEN WORKLOAD_MEDIUM
        ELSE IF Contains(command_str, s_heavy) THEN WORKLOAD_HEAVY
        ELSE WORKLOAD_OTHER

\* the multipliers with the Parallel collector given the default's value
gc_multiplier_parallel_as_default(command) ==
    LET command_str == join(command)
    IN  IF Contains(command_str, s_SerialGC) THEN GC_SERIAL
        ELSE IF Contains(command_str, s_ParallelGC) THEN GC_DEFAULT
        ELSE IF Contains(command_str, s_G1GC) THEN GC_G1
        ELSE GC_DEFAULT

_get_gc_power_multiplier(command) ==
    LET command_str == join(command)
    IN  IF Contains(command_str, s_SerialGC) THEN GC_SERIAL
        ELSE IF Contains(command_str, s_ParallelGC) THEN GC_PARALLEL
        ELSE IF Contains(command_str, s_G1GC) THEN GC_G1
        ELSE GC_DEFAULT

Max(a, b) == IF a >= b THEN a ELSE b

\* lines 50-75: the energy of a command that ran for execution_time, and
\* the generator after the two draws
_simulate_energy(command, execution_time, rng) ==
    LET base_power_watts ==
            IF \E i \in 1..Len(command) : Contains(command[i], s_java)
            THEN JAVA_POWER ELSE BASE_POWER
        workload_multiplier == _get_workload_multiplier(command)
        gc_multiplier == _get_gc_power_multiplier(command)
        workload_factor == VARIANCE_UNIT + Z(rng)
        power_watts ==
            base_power_watts * workload_multiplier * gc_multiplier * workload_factor
        energy_joules == power_watts * execution_time
        noise == NOISE_SIGMA * Z(Drawn(rng))
    IN  [energy |-> Max(ENERGY_FLOOR, energy_joules + noise),
         rng |-> Drawn(Drawn(rng))]

----------------------------------------------------------------------------
(* The simulation on its own: _simulate_energy applied once to a command,  *)
(* an elapsed time and a generator state.  The controller of the batch     *)
(* experiment takes no part and its variables keep the values below.       *)

NoController ==
    /\ self = RunnerConfig(1)
    /\ total_runs = 0
    /\ pc = "none"
    /\ run_nr = 0
    /\ ctx = NewContext(0)
    /\ fs = EmptyDir
    /\ trace = <<>>
    /\ results = <<>>
    /\ heap = <<>>
    /\ interrupted = FALSE
    /\ pauses = {}
    /\ raised = "none"
    /\ announced = 0
    /\ remote = NoRemote
    /\ dut = NoWorkload

\* The command lines: a program, at most one collector flag, the class or
\* jar to run, at most one workload word.
Programs == {s_java, s_true}
GcFlags == {<<>>, <<s_SerialGC>>, <<s_ParallelGC>>, <<s_G1GC>>}
Mains == {<<s_SimpleGCTest>>, <<s_jar, s_highlight_jar>>}
WorkloadWords == {<<>>, <<s_light>>, <<s_medium>>, <<s_heavy>>}

CommandShapes == [prog : Programs, gc : GcFlags, main : Mains, wl : WorkloadWords]

\* test_basic.py line 293: ['java', '-XX:+UseG1GC', 'SimpleGCTest', workload]
Command(c) == <<c.prog>> \o c.gc \o c.main \o c.wl

\* elapsed times in tenths of a second: none, 0.1 s, 2 s, 300 s
ElapsedTimes == {0, 1, 20, 3000}

EnergyInit ==
    /\ NoController
    /\ plan = NoPlan
    /\ \E c \in CommandShapes, t \in ElapsedTimes, seed \in Seeds :
          sim = [shape |-> c, execution_time |-> t, rng0 |-> random_seed(seed),
                 rng |-> random_seed(seed), called |-> FALSE, energy |-> 0]

SimulateEnergy ==
    /\ ~sim.called
    /\ LET r == _simulate_energy(Command(sim.shape), sim.execution_time, sim.rng)
       IN  sim' = [sim EXCEPT !.called = TRUE, !.energy = r.energy, !.rng = r.rng]
    /\ UNCHANGED <<ctrl_vars, plan>>

EnergyNext == SimulateEnergy

EnergySpec == EnergyInit /\ [][EnergyNext]_vars

----------------------------------------------------------------------------
(* energy_mock.py: the measurement of a local command and its CSV file.    *)
(* A file is a sequence of tokens: a column name, a character of a number, *)
(* the separator "," and the characters of the line terminator.            *)

\* subprocess.run(command, ..., timeout=300), line 30
mock_timeout == [given |-> TRUE, secs |-> 300]
\* line 34: execution_time = 300.0
TIMEOUT_EXECUTION_TIME == 3000
\* line 38: execution_time = 0.1
FAILED_EXECUTION_TIME == 1
\* lines 35 and 39: exit_code = 1
FAILED_EXIT_CODE == 1

TICKS_PER_JOULE == 50000
MICRO == 1000000

\* csv.writer: lineterminator '\r\n', the file being opened with newline=''
CRLF == <<"\r", "\n">>

\* line 114
CSV_HEADER == <<"timestamp", "energy_joules", "power_watts", "execution_time">>

\* a/b rounded to the nearest integer, for a >= 0 and b > 0
RoundDiv(a, b) == (2 * a + b) \div (2 * b)

\* f"{x:.6f}" of the number whole + micro/1000000
format_6f(whole, micro) ==
    str(whole) \o <<".">> \o Chars(6 - Len(str(micro)), "0") \o str(micro)

\* energy_joules / execution_time in millionths of a watt
power_of(energy_joules, execution_time) ==
    200 * (energy_joules \div execution_time)
        + RoundDiv(200 * (energy_joules % execution_time), execution_time)

csv_row(now, energy_joules, power_micro, execution_time) ==
    str(now) \o <<",">>
        \o format_6f(energy_joules \div TICKS_PER_JOULE,
                     (energy_joules % TICKS_PER_JOULE) * (MICRO \div TICKS_PER_JOULE))
        \o <<",">> \o format_6f(power_micro \div MICRO, power_micro % MICRO)
        \o <<",">> \o format_6f(execution_time \div 10, (execution_time % 10) * (MICRO \div 10))

Missing == <<"<missing>">>

\* lines 103-118 without the test of line 107
write_csv_unguarded(files, output_file, energy_joules, execution_time, now) ==
    IF execution_time = 0
    THEN [files |-> files, exc |-> "ZeroDivisionError"]
    ELSE LET power_watts == power_of(energy_joules, execution_time)
         IN  [files |-> [files EXCEPT ![output_file] =
                            Join([i \in 1..4 |-> <<CSV_HEADER[i]>>]) \o CRLF
                                \o csv_row(now, energy_joules, power_watts, execution_time)
                                \o CRLF],
              exc |-> "none"]

\* lines 103-118 with the file opened for appending
write_csv_append(files, output_file, energy_joules, execution_time, now) ==
    LET power_watts == IF execution_time > 0
                       THEN power_of(energy_joules, execution_time) ELSE 0
        old == IF files[output_file] = Missing THEN <<>> ELSE files[output_file]
    IN  [files |-> [files EXCEPT ![output_file] =
                       old \o Join([i \in 1..4 |-> <<CSV_HEADER[i]>>]) \o CRLF
                           \o csv_row(now, energy_joules, power_watts, execution_time)
                           \o CRLF],
         exc |-> "none"]

\* lines 103-118: open(output_file, 'w') truncates, then header and one row
_write_energibridge_csv(files, output_file, energy_joules, execution_time, now) ==
    LET power_watts == IF execution_time > 0
                       THEN power_of(energy_joules, execution_time) ELSE 0
    IN  [files |-> [files EXCEPT ![output_file] =
                       Join([i \in 1..4 |-> <<CSV_HEADER[i]>>]) \o CRLF
                           \o csv_row(now, energy_joules, power_watts, execution_time)
                           \o CRLF],
         exc |-> "none"]

\* lines 20-48: run the command, simulate its energy, write the file, return
\* the exit code; exc is the exception that leaves the method instead.  now
\* is the clock at the start; the row is stamped with the clock at the end,
\* `elapsed` seconds later.  Every exception of subprocess.run other than
\* TimeoutExpired (the command cannot be started; its output cannot be
\* decoded once it has ended) gives execution time 0.1 and exit code 1.
measure_command(command, output_file, beh, rng, files, now) ==
    LET outcome == subprocess_run(beh, mock_timeout)
        execution_time == IF outcome = "completed" THEN 10 * beh.secs
                          ELSE IF outcome = "TimeoutExpired" THEN TIMEOUT_EXECUTION_TIME
                          ELSE FAILED_EXECUTION_TIME
        exit_code == IF outcome = "completed" THEN beh.rc ELSE FAILED_EXIT_CODE
        e == _simulate_energy(command, execution_time, rng)
        elapsed == IF outcome = "TimeoutExpired" THEN mock_timeout.secs
                   ELSE IF outcome = "OSError" THEN 0
                   ELSE beh.secs
        w == _write_energibridge_csv(files, output_file, e.energy, execution_time,
                                     now + elapsed)
    IN  [files |-> w.files, rng |-> e.rng, exc |-> w.exc, returns |-> exit_code,
         energy |-> e.energy, execution_time |-> execution_time,
         now |-> now + elapsed]

\* the lines of a text: '\r\n' ends a line
RECURSIVE splitlines(_)
splitlines(t) ==
    IF t = <<>> THEN <<>>
    ELSE IF \A i \in 1..(Len(t) - 1) : SubSeq(t, i, i + 1) # CRLF
    THEN <<t>>
    ELSE LET i == CHOOSE j \in 1..(Len(t) - 1) :
                     /\ SubSeq(t, j, j + 1) = CRLF
                     /\ \A k \in 1..(j - 1) : SubSeq(t, k, k + 1) # CRLF
         IN  <<SubSeq(t, 1, i - 1)>> \o splitlines(SubSeq(t, i + 2, Len(t)))

DigitValue(c) == CHOOSE d \in 0..9 : Digit[d + 1] = c

IsDigits(t) == t # <<>> /\ \A i \in 1..Len(t) : \E d \in 1..10 : Digit[d] = t[i]

RECURSIVE int(_)
int(t) == IF Len(t) = 1 THEN DigitValue(t[1])
          ELSE 10 * int(SubSeq(t, 1, Len(t) - 1)) + DigitValue(t[Len(t)])

\* the decimal numbers that float() reads back from a file: digits, a
\* point, six digits
IsDecimal(t) ==
    /\ Len(t) >= 8
    /\ t[Len(t) - 6] = "."
    /\ IsDigits(SubSeq(t, 1, Len(t) - 7))
    /\ IsDigits(SubSeq(t, Len(t) - 5, Len(t)))

decimal(t) == [whole |-> int(SubSeq(t, 1, Len(t) - 7)),
               micro |-> int(SubSeq(t, Len(t) - 5, Len(t)))]

ZERO == [whole |-> 0, micro |-> 0]

\* lines 120-129 reading the power_watts column
parse_energy_result_power_column(files, output_file) ==
    IF files[output_file] = Missing THEN ZERO
    ELSE LET lines == splitlines(files[output_file])
         IN  IF Len(lines) < 2 THEN ZERO
             ELSE LET names == Split(lines[1])
                      row == Split(lines[2])
                  IN  IF ~\E i \in 1..Min(Len(names), Len(row)) :
                              names[i] = <<"power_watts">>
                      THEN ZERO
                      ELSE LET i == CHOOSE j \in 1..Len(names) :
                                       names[j] = <<"power_watts">>
                           IN  IF IsDecimal(row[i]) THEN decimal(row[i]) ELSE ZERO

\* lines 120-129: the energy_joules field of the first row under the
\* header, 0.0 on any exception
parse_energy_result(files, output_file) ==
    IF files[output_file] = Missing THEN ZERO
    ELSE LET lines == splitlines(files[output_file])
         IN  IF Len(lines) < 2 THEN ZERO
             ELSE LET names == Split(lines[1])
                      row == Split(lines[2])
                  IN  IF ~\E i \in 1..Min(Len(names), Len(row)) :
                              names[i] = <<"energy_joules">>
                      THEN ZERO
                      ELSE LET i == CHOOSE j \in 1..Len(names) :
                                       names[j] = <<"energy_joules">>
                           IN  IF IsDecimal(row[i]) THEN decimal(row[i]) ELSE ZERO

\* os.getenv('ENERGY_MOCK_MODE', 'false'), line 137
Unset == [set |-> FALSE, value |-> <<>>]
EnvValue(v) == [set |-> TRUE, value |-> v]
s_false == <<"f", "a", "l", "s", "e">>
getenv(env, default) == IF env.set THEN env.value ELSE default

\* str.lower() on the letters of the values below
LowerOf == ("T" :> "t") @@ ("R" :> "r") @@ ("U" :> "u") @@ ("E" :> "e")
lower(t) == [i \in 1..Len(t) |-> IF t[i] \in DOMAIN LowerOf THEN LowerOf[t[i]] ELSE t[i]]

\* lines 132-143 with the comparison made without lower()
create_mock_energibridge_case_sensitive(mock_mode, env) ==
    LET mode == IF mock_mode = "None" THEN getenv(env, s_false) = s_true
                ELSE mock_mode = "True"
    IN  IF mode
        THEN [provider |-> "MockEnergyMeasurement", exc |-> "none", seeded |-> TRUE]
        ELSE [provider |-> "none", exc |-> "NotImplementedError", seeded |-> FALSE]

\* lines 132-143: the provider is built with the default seed
create_mock_energibridge(mock_mode, env) ==
    LET mode == IF mock_mode = "None" THEN lower(getenv(env, s_false)) = s_true
                ELSE mock_mode = "True"
    IN  IF mode
        THEN [provider |-> "MockEnergyMeasurement", exc |-> "none", seeded |-> TRUE]
        ELSE [provider |-> "none", exc |-> "NotImplementedError", seeded |-> FALSE]

----------------------------------------------------------------------------
(* A process that obtains a MockEnergyMeasurement, directly or from the    *)
(* factory, measures commands into a file and parses the file back.        *)

MaxMeasurements == 2

\* time.time() when the process starts, in seconds
EPOCH == 1700000000

OutputFiles == {"energy.csv"}

\* test_basic.py line 23: ['java', '-version']
MockCommands == {<<s_java, s_version>>}

\* what the wrapped command does: it cannot be started, it never ends, it
\* ends after secs seconds with exit code rc, or it ends after secs seconds
\* with output that is not valid UTF-8
LocalBehaviours ==
    {[kind |-> "nostart", secs |-> 0, rc |-> 0],
     [kind |-> "undecodable", secs |-> 2, rc |-> 0],
     [kind |-> "hung", secs |-> 0, rc |-> 0],
     [kind |-> "exit", secs |-> 0, rc |-> 0],
     [kind |-> "exit", secs |-> 2, rc |-> 0],
     [kind |-> "exit", secs |-> 2, rc |-> 2]}

MockModes == {"None", "True", "False"}

EnvValues ==
    {Unset, EnvValue(s_true), EnvValue(<<"T", "R", "U", "E">>),
     EnvValue(<<"T", "r", "u", "e">>), EnvValue(s_false), EnvValue(<<"1">>)}

NoFactoryCall == [called |-> FALSE, mock_mode |-> "None", env |-> Unset]

NoMeasurement ==
    [command |-> <<>>, beh |-> [kind |-> "none", secs |-> 0, rc |-> 0],
     output_file |-> "", energy |-> 0, execution_time |-> 0, returns |-> 0,
     before |-> Missing, now |-> 0]

NotParsed == [done |-> FALSE, value |-> ZERO]

\* no call of measure_command is waiting for its command
NotWaiting == [active |-> FALSE, command |-> <<>>, output_file |-> ""]

MockInit ==
    /\ NoController
    /\ plan = NoPlan
    /\ \E s \in Seeds :
          sim = [provider |-> "none", exc |-> "none", rng |-> random_seed(s),
                 factory |-> NoFactoryCall,
                 files |-> [f \in OutputFiles |-> Missing],
                 calls |-> 0, last |-> NoMeasurement, parsed |-> NotParsed,
                 waiting |-> NotWaiting,
                 now |-> EPOCH]

\* MockEnergyMeasurement(seed), lines 16-18
Construct ==
    /\ sim.provider = "none"
    /\ sim.exc = "none"
    /\ \E seed \in Seeds :
          sim' = [sim EXCEPT !.provider = "MockEnergyMeasurement",
                             !.rng = random_seed(seed)]
    /\ UNCHANGED <<ctrl_vars, plan>>

CreateMockEnergibridge ==
    /\ sim.provider = "none"
    /\ sim.exc = "none"
    /\ \E mock_mode \in MockModes, env \in EnvValues :
          LET r == create_mock_energibridge(mock_mode, env)
          IN  sim' = [sim EXCEPT
                         !.provider = r.provider,
                         !.exc = r.exc,
                         !.rng = IF r.seeded THEN random_seed(DEFAULT_SEED) ELSE @,
                         !.factory = [called |-> TRUE, mock_mode |-> mock_mode,
                                      env |-> env]]
    /\ UNCHANGED <<ctrl_vars, plan>>

\* the state after measure_command has ended as r says
Measured(r, command, beh, output_file) ==
    [sim EXCEPT
        !.rng = r.rng,
        !.files = r.files,
        !.exc = r.exc,
        !.calls = @ + 1,
        !.now = r.now,
        !.parsed = NotParsed,
        !.waiting = NotWaiting,
        !.last = [command |-> command, beh |-> beh,
                  output_file |-> output_file,
                  energy |-> r.energy,
                  execution_time |-> r.execution_time,
                  returns |-> r.returns,
                  before |-> sim.files[output_file],
                  now |-> r.now]]

\* measure_command, lines 25-30: the clock is read and the command started;
\* the method then waits for it in subprocess.run.  A command that cannot be
\* started raises at once and the method goes on from line 36.
MeasureCommand ==
    /\ sim.provider = "MockEnergyMeasurement"
    /\ sim.exc = "none"
    /\ ~sim.waiting.active
    /\ sim.calls < MaxMeasurements
    /\ \E command \in MockCommands, beh \in LocalBehaviours, output_file \in OutputFiles :
          IF beh.kind = "nostart"
          THEN sim' = Measured(measure_command(command, output_file, beh, sim.rng,
                                               sim.files, sim.now),
                               command, beh, output_file)
          ELSE sim' = [sim EXCEPT !.waiting = [active |-> TRUE, command |-> command,
                                               output_file |-> output_file]]
    /\ UNCHANGED <<ctrl_vars, plan>>

\* measure_command, lines 30-48: the command ends or the 300 s pass; the
\* energy is drawn, the file written and the exit code returned
MeasureCommandEnds ==
    /\ sim.waiting.active
    /\ \E beh \in LocalBehaviours :
          /\ beh.kind # "nostart"
          /\ sim' = Measured(measure_command(sim.waiting.command, sim.waiting.output_file,
                                             beh, sim.rng, sim.files, sim.now),
                             sim.waiting.command, beh, sim.waiting.output_file)
    /\ UNCHANGED <<ctrl_vars, plan>>

\* SIGINT while measure_command waits in subprocess.run (line 30):
\* `except Exception` does not catch KeyboardInterrupt, which leaves the
\* method with nothing drawn and nothing written
MeasureCommandInterrupted ==
    /\ sim.waiting.active
    /\ sim' = [sim EXCEPT !.waiting = NotWaiting, !.exc = "KeyboardInterrupt"]
    /\ UNCHANGED <<ctrl_vars, plan>>

ParseEnergyResult ==
    /\ sim.provider = "MockEnergyMeasurement"
    /\ sim.exc = "none"
    /\ ~sim.waiting.active
    /\ ~sim.parsed.done
    /\ \E output_file \in OutputFiles :
          sim' = [sim EXCEPT !.parsed =
                     [done |-> TRUE,
                      value |-> parse_energy_result(sim.files, output_file)]]
    /\ UNCHANGED <<ctrl_vars, plan>>

MockNext ==
    \/ Construct
    \/ CreateMockEnergibridge
    \/ MeasureCommand
    \/ MeasureCommandEnds
    \/ MeasureCommandInterrupted
    \/ ParseEnergyResult

MockSpec == MockInit /\ [][MockNext]_vars

----------------------------------------------------------------------------
(* Mock-Server/gc_energy_experiment/RunnerConfig.py: the measurement       *)
(* computed from the factors of a trial.  The base energy is in tenths of  *)
(* a joule, the workload multiplier in tenths, the JDK factor in           *)
(* hundredths and the variance factor of the energy in twentieths, so an   *)
(* energy is a whole number of units of 0.000005 J; the base time is in    *)
(* hundredths of a second and the variance factor of the time in           *)
(* twenty-fifths.  A power of the workload multiplier is a real number     *)
(* kept to 18 decimals: ten limbs in base 1000, four before the point and  *)
(* six after it.  The results are in millionths.                           *)

s_oraclejdk11 == <<"o", "r", "a", "c", "l", "e", "j", "d", "k", "1", "1">>
s_openjdk17 == <<"o", "p", "e", "n", "j", "d", "k", "1", "7">>
s_oracle == <<"o", "r", "a", "c", "l", "e">>

\* lines 66-68: the factor levels
GC_STRATEGIES == {"SerialGC", "ParallelGC", "G1GC"}
WORKLOAD_LEVELS == {"light", "medium", "heavy"}
JDK_LEVELS == {s_oraclejdk11, s_openjdk17}

\* lines 146-150: energy in tenths of a joule, time in hundredths of a
\* second, variance in twentieths
base_values ==
    [SerialGC |-> [energy |-> 32, time |-> 35, variance |-> 3],
     ParallelGC |-> [energy |-> 41, time |-> 22, variance |-> 5],
     G1GC |-> [energy |-> 38, time |-> 28, variance |-> 7]]

\* line 151, in tenths
workload_multipliers == [light |-> 10, medium |-> 23, heavy |-> 35]

\* the number 1
ONE == <<0, 0, 0, 1, 0, 0, 0, 0, 0, 0>>

\* line 156, workload_multiplier ** 0.8: 1.0, 2.3 ** 0.8 =
\* 1.947073153976526514... and 3.5 ** 0.8 = 2.724296895429097837...
POW_08 ==
    (10 :> ONE)
    @@ (23 :> <<0, 0, 0, 1, 947, 73, 153, 976, 526, 514>>)
    @@ (35 :> <<0, 0, 0, 2, 724, 296, 895, 429, 97, 837>>)

\* 1 / workload_multiplier ** 0.8, by which line 162 divides:
\* 0.513591386105699334... and 0.367067187749554096...
POW_M08 ==
    (10 :> ONE)
    @@ (23 :> <<0, 0, 0, 0, 513, 591, 386, 105, 699, 334>>)
    @@ (35 :> <<0, 0, 0, 0, 367, 67, 187, 749, 554, 96>>)

\* line 152, in hundredths
JDK_ORACLE == 105
JDK_OTHER == 100

\* line 160: max(0.1, energy_joules), in units of 0.000005 J
SYNTH_ENERGY_FLOOR == 20000
\* line 161: max(0.05, execution_time), in millionths of a second
SYNTH_TIME_FLOOR == 50000

\* the limbs of x times m from limb i down, for 0 <= m <= 2000000
RECURSIVE TimesFrom(_, _, _, _, _)
TimesFrom(x, m, i, carry, acc) ==
    IF i = 0 THEN acc
    ELSE TimesFrom(x, m, i - 1, (x[i] * m + carry) \div 1000,
                   <<(x[i] * m + carry) % 1000>> \o acc)

\* x * m
Times(x, m) == TimesFrom(x, m, Len(x), 0, <<>>)

\* x times every factor of ms
RECURSIVE TimesAll(_, _)
TimesAll(x, ms) == IF ms = <<>> THEN x ELSE TimesAll(Times(x, Head(ms)), Tail(ms))

\* the limbs of x / d from limb i on and what is left, for 0 < d <= 2000000
RECURSIVE OverFrom(_, _, _, _, _)
OverFrom(x, d, i, rest, acc) ==
    IF i > Len(x) THEN [limbs |-> acc, rest |-> rest]
    ELSE OverFrom(x, d, i + 1, (rest * 1000 + x[i]) % d,
                  Append(acc, (rest * 1000 + x[i]) \div d))

\* x / d
Over(x, d) == OverFrom(x, d, 1, 0, <<>>)

\* the part of x before the point
Whole(x) == ((x[1] * 1000 + x[2]) * 1000 + x[3]) * 1000 + x[4]

\* round(x, 6) of x millionths, rest being what the limbs leave out: up
\* above the half.  On the half itself Python rounds the binary quotient,
\* which for the factors and draws of the experiment lies below it.
Rounded(x, rest) ==
    Whole(x) + (IF \/ x[5] > 500
                   \/ /\ x[5] = 500
                      /\ (rest > 0 \/ \E i \in 6..Len(x) : x[i] > 0)
                THEN 1 ELSE 0)

\* round(energy_joules / execution_time, 6) in millionths of a watt, for
\* the quotient c * ms[1] * ... * ms[n] / d
power_micro(c, ms, d) ==
    LET q == Over(TimesAll(c, ms), d)
    IN  Rounded(q.limbs, q.rest)

\* lines 145-164 without the floor of line 161
mock_energy_measurement_time_unfloored(gc_strategy, workload, jdk, rng) ==
    LET workload_multiplier ==
            IF workload \in DOMAIN workload_multipliers
            THEN workload_multipliers[workload] ELSE 10
        jdk_factor == IF Contains(jdk, s_oracle) THEN JDK_ORACLE ELSE JDK_OTHER
        base == IF gc_strategy \in DOMAIN base_values
                THEN base_values[gc_strategy] ELSE base_values["G1GC"]
        energy_gauss == 20 + base.variance * Z(rng)
        time_gauss == 25 + base.variance * Z(Drawn(rng))
        energy_base == base.energy * workload_multiplier * jdk_factor
        energy_floored == energy_base * energy_gauss < SYNTH_ENERGY_FLOOR
        energy_joules ==
            IF energy_floored THEN <<SYNTH_ENERGY_FLOOR>>
            ELSE <<base.energy * workload_multiplier, jdk_factor, energy_gauss>>
        execution_time ==
            Times(POW_08[workload_multiplier], base.time * time_gauss * 400)
    IN  [energy_joules |-> 5 * Max(SYNTH_ENERGY_FLOOR, energy_base * energy_gauss),
         execution_time |-> IF time_gauss > 0 THEN Rounded(execution_time, 0)
                            ELSE 0 - Rounded(Times(POW_08[workload_multiplier],
                                                   base.time * (0 - time_gauss) * 400), 0),
         power_watts |-> IF time_gauss > 0
                         THEN power_micro(POW_M08[workload_multiplier],
                                          energy_joules \o <<12500>>,
                                          base.time * time_gauss)
                         ELSE 0,
         rng |-> Drawn(Drawn(rng))]

\* lines 145-164: (energy_joules, execution_time, power_watts), each rounded
\* to six decimals, and the generator after the two draws.  The energy is
\* energy_base * gauss, a whole number of units; the time is
\* base.time / 100 * workload_multiplier ** 0.8 * time_gauss / 25 seconds,
\* i.e. the power of the multiplier times base.time * time_gauss * 400
\* millionths; the power is 12500 * energy / (base.time * time_gauss) times
\* the inverse of that power of the multiplier, and energy / 125 units when
\* the time is the floor of 0.05 s.
_mock_energy_measurement(gc_strategy, workload, jdk, rng) ==
    LET workload_multiplier ==
            IF workload \in DOMAIN workload_multipliers
            THEN workload_multipliers[workload] ELSE 10
        jdk_factor == IF Contains(jdk, s_oracle) THEN JDK_ORACLE ELSE JDK_OTHER
        base == IF gc_strategy \in DOMAIN base_values
                THEN base_values[gc_strategy] ELSE base_values["G1GC"]
        energy_gauss == 20 + base.variance * Z(rng)
        time_gauss == 25 + base.variance * Z(Drawn(rng))
        energy_base == base.energy * workload_multiplier * jdk_factor
        energy_floored == energy_base * energy_gauss < SYNTH_ENERGY_FLOOR
        energy_joules ==
            IF energy_floored THEN <<SYNTH_ENERGY_FLOOR>>
            ELSE <<base.energy * workload_multiplier, jdk_factor, energy_gauss>>
        execution_time ==
            Times(POW_08[workload_multiplier], base.time * time_gauss * 400)
        time_floored ==
            time_gauss <= 0 \/ Whole(execution_time) < SYNTH_TIME_FLOOR
    IN  [energy_joules |-> 5 * Max(SYNTH_ENERGY_FLOOR, energy_base * energy_gauss),
         execution_time |-> IF time_floored THEN SYNTH_TIME_FLOOR
                            ELSE Rounded(execution_time, 0),
         power_watts |-> IF time_floored
                         THEN power_micro(ONE, energy_joules \o <<12500>>, 125)
                         ELSE power_micro(POW_M08[workload_multiplier],
                                          energy_joules \o <<12500>>,
                                          base.time * time_gauss),
         rng |-> Drawn(Drawn(rng))]

----------------------------------------------------------------------------
(* Two separate runs of the experiment of that file, given the same trials *)
(* in the same order.  Neither the module nor RunnerConfig.__init__ calls  *)
(* random.seed, so each process draws from the generator as the            *)
(* interpreter seeded it at start-up, from the entropy of the system.      *)

MaxTrials == 3

\* the state of the generator of a process that has not called random.seed
EntropySeeds == Seeds

NoOutput == [energy_joules |-> 0, execution_time |-> 0, power_watts |-> 0]

SynthInit ==
    /\ NoController
    /\ plan = NoPlan
    /\ \E sa \in EntropySeeds :
       \E sb \in {sa, (sa + 1) % Cardinality(EntropySeeds)} :
          sim = [first |-> [rng |-> random_seed(sa), out |-> NoOutput,
                            measured |-> NoOutput],
                 second |-> [rng |-> random_seed(sb), out |-> NoOutput,
                             measured |-> NoOutput],
                 trials |-> 0,
                 pc |-> "start_run",
                 factors |-> [gc_strategy |-> "", workload |-> "", jdk |-> <<>>]]

\* lines 84-89: start_run of the next trial, in both processes, binds a new
\* current_run_data holding run_id and run_dir only; the values stored by
\* the trial before are gone
SynthStartRun ==
    /\ sim.pc = "start_run"
    /\ sim.trials < MaxTrials
    /\ sim' = [sim EXCEPT !.first.out = NoOutput,
                          !.second.out = NoOutput,
                          !.pc = "interact"]
    /\ UNCHANGED <<ctrl_vars, plan>>

\* lines 94-129: the interact hook of one trial, in either run, from the
\* generator of the run to the values stored in current_run_data
interact_mock(run, gc_strategy, workload, jdk) ==
    LET r == _mock_energy_measurement(gc_strategy, workload, jdk, run.rng)
    IN  [rng |-> r.rng,
         out |-> [energy_joules |-> r.energy_joules,
                  execution_time |-> r.execution_time,
                  power_watts |-> r.power_watts]]

\* the run after line 116 of interact: the two draws are made and the
\* measurement is in the local variables of the hook
Measuring(run, gc_strategy, workload, jdk) ==
    [rng |-> interact_mock(run, gc_strategy, workload, jdk).rng,
     out |-> run.out,
     measured |-> interact_mock(run, gc_strategy, workload, jdk).out]

\* lines 94-118: the next trial of the plan, in both processes, up to the
\* sleep of min(execution_time, 0.2) seconds
SynthTrial ==
    /\ sim.pc = "interact"
    /\ \E gc_strategy \in GC_STRATEGIES, workload \in WORKLOAD_LEVELS, jdk \in JDK_LEVELS :
          sim' = [sim EXCEPT
                     !.first = Measuring(sim.first, gc_strategy, workload, jdk),
                     !.second = Measuring(sim.second, gc_strategy, workload, jdk),
                     !.pc = "sleep",
                     !.factors = [gc_strategy |-> gc_strategy, workload |-> workload,
                                  jdk |-> jdk]]
    /\ UNCHANGED <<ctrl_vars, plan>>

\* lines 122-129: the sleep is over and current_run_data is updated
SynthTrialEnds ==
    /\ sim.pc = "sleep"
    /\ sim' = [sim EXCEPT !.first.out = sim.first.measured,
                          !.second.out = sim.second.measured,
                          !.trials = @ + 1,
                          !.pc = "start_run"]
    /\ UNCHANGED <<ctrl_vars, plan>>

\* SIGINT during the sleep of line 118: KeyboardInterrupt leaves interact,
\* the draws are made and current_run_data is as start_run left it
SynthInterrupted ==
    /\ sim.pc = "sleep"
    /\ sim' = [sim EXCEPT !.pc = "aborted"]
    /\ UNCHANGED <<ctrl_vars, plan>>

SynthNext == SynthStartRun \/ SynthTrial \/ SynthTrialEnds \/ SynthInterrupted

SynthSpec == SynthInit /\ [][SynthNext]_vars

----------------------------------------------------------------------------
(* The trial plan generator.  create_run_table_model hands the factors,    *)
(* the excluded combinations and the repetitions to the RunTableModel of   *)
(* the experiment framework, which generates the run table; the framework  *)
(* is not part of the repository, and the generator is the one the         *)
(* specification describes.  A factor is a name and a sequence of levels,  *)
(* an exclusion rule a function from some factor names to sets of levels,  *)
(* a TrialSpec a level for every factor, a repetition index and a          *)
(* sequence number.                                                        *)

MaxRepetitions == 2

Factor(name, levels) == [name |-> name, levels |-> levels]

\* linux-ps-profiling/RunnerConfig.py lines 61-62
cpu_limit_factor == Factor("cpu_limit", <<"20", "50", "70">>)
pin_core_factor == Factor("pin_core", <<"True", "False">>)

\* Mock-Server/gc_energy_experiment/RunnerConfig.py lines 66-67, two levels
\* of each
gc_factor == Factor("gc_strategy", <<"SerialGC", "G1GC">>)
workload_factor == Factor("workload", <<"light", "heavy">>)

\* the factor lists handed to the generator; the last has a factor without
\* levels
FactorLists ==
    {<<cpu_limit_factor, pin_core_factor>>,
     <<gc_factor, workload_factor>>,
     <<gc_factor>>,
     <<gc_factor, Factor("jdk", <<>>)>>}

NamesOf(factors) == {factors[i].name : i \in 1..Len(factors)}

LevelsOf(factors, name) ==
    LET i == CHOOSE j \in 1..Len(factors) : factors[j].name = name
    IN  {factors[i].levels[k] : k \in 1..Len(factors[i].levels)}

\* the rules over declared factors and levels
ValidRules(factors) ==
    UNION {{r \in [D -> SUBSET (UNION {LevelsOf(factors, n) : n \in D})] :
               \A n \in D : r[n] \subseteq LevelsOf(factors, n)} :
           D \in SUBSET NamesOf(factors)}

\* rules that name an undeclared level or an undeclared factor
InvalidRules(factors) ==
    {(factors[1].name :> {"ZGC"}), ("subject" :> {"dacapo"})}

\* linux-ps-profiling/RunnerConfig.py lines 65-67
exclude_combinations == <<("cpu_limit" :> {"70"}) @@ ("pin_core" :> {"False"})>>

\* a factor assignment matches a rule as soon as one constraint holds
matches_any(levels, rule) ==
    \E n \in DOMAIN rule : n \in DOMAIN levels /\ levels[n] \in rule[n]

\* a factor assignment matches a rule in full
matches(levels, rule) ==
    \A n \in DOMAIN rule : n \in DOMAIN levels /\ levels[n] \in rule[n]

\* the Cartesian product of the levels in the declared order of the
\* factors, the last factor changing fastest
RECURSIVE product(_)
product(factors) ==
    IF factors = <<>> THEN <<<<>>>>
    ELSE LET f == Head(factors)
             rest == product(Tail(factors))
             n == Len(rest)
         IN  [k \in 1..(Len(f.levels) * n) |->
                 (f.name :> f.levels[((k - 1) \div n) + 1]) @@ rest[((k - 1) % n) + 1]]

ConfigurationError(factors, exclusions, repetitions) ==
    \/ \E i \in 1..Len(factors) : Len(factors[i].levels) = 0
    \/ repetitions < 1
    \/ \E i \in 1..Len(exclusions) : \E n \in DOMAIN exclusions[i] :
          \/ n \notin NamesOf(factors)
          \/ ~(exclusions[i][n] \subseteq LevelsOf(factors, n))

\* the generator with the sequence numbers assigned before the filtering
generate_numbered_first(factors, exclusions, repetitions) ==
    IF ConfigurationError(factors, exclusions, repetitions)
    THEN [error |-> "ConfigurationError", specs |-> <<>>]
    ELSE LET combinations == product(factors)
             emitted == [k \in 1..(Len(combinations) * repetitions) |->
                            [levels |-> combinations[((k - 1) \div repetitions) + 1],
                             repetition |-> (k - 1) % repetitions,
                             sequence |-> k]]
             kept == SelectSeq(emitted,
                         LAMBDA t : ~\E i \in 1..Len(exclusions) :
                                         matches(t.levels, exclusions[i]))
         IN  [error |-> "none", specs |-> kept]

\* the generator with the exclusion rules ignored
generate_unfiltered(factors, exclusions, repetitions) ==
    IF ConfigurationError(factors, exclusions, repetitions)
    THEN [error |-> "ConfigurationError", specs |-> <<>>]
    ELSE LET combinations == product(factors)
         IN  [error |-> "none",
              specs |-> [k \in 1..(Len(combinations) * repetitions) |->
                            [levels |-> combinations[((k - 1) \div repetitions) + 1],
                             repetition |-> (k - 1) % repetitions,
                             sequence |-> k]]]

\* generate(factors, exclusions, repetitions): the combinations in order,
\* repetitions of each, the excluded ones dropped, then numbered from 1
generate(factors, exclusions, repetitions) ==
    IF ConfigurationError(factors, exclusions, repetitions)
    THEN [error |-> "ConfigurationError", specs |-> <<>>]
    ELSE LET combinations == product(factors)
             emitted == [k \in 1..(Len(combinations) * repetitions) |->
                            [levels |-> combinations[((k - 1) \div repetitions) + 1],
                             repetition |-> (k - 1) % repetitions]]
             kept == SelectSeq(emitted,
                         LAMBDA t : ~\E i \in 1..Len(exclusions) :
                                         matches(t.levels, exclusions[i]))
         IN  [error |-> "none",
              specs |-> [i \in 1..Len(kept) |->
                            [levels |-> kept[i].levels,
                             repetition |-> kept[i].repetition,
                             sequence |-> i]]]

NoTable == [error |-> "none", specs |-> <<>>]

\* The generator applied to every input, and applied again with one more
\* rule at the end of the exclusions.
PlanInit ==
    /\ NoController
    /\ sim = NoSim
    /\ \E factors \in FactorLists, repetitions \in 0..MaxRepetitions :
       \E rule \in ValidRules(factors) \cup InvalidRules(factors) :
       \E exclusions \in {<<>>, exclude_combinations}
                            \cup {<<r>> : r \in ValidRules(factors) \cup InvalidRules(factors)} :
          plan = [factors |-> factors, exclusions |-> exclusions,
                  repetitions |-> repetitions, rule |-> rule,
                  generated |-> FALSE, table |-> NoTable,
                  extended |-> FALSE, table_with_rule |-> NoTable]

Generate ==
    /\ ~plan.generated
    /\ plan' = [plan EXCEPT
                   !.generated = TRUE,
                   !.table = generate(plan.factors, plan.exclusions, plan.repetitions)]
    /\ UNCHANGED <<ctrl_vars, sim>>

GenerateWithRule ==
    /\ plan.generated
    /\ ~plan.extended
    /\ plan' = [plan EXCEPT
                   !.extended = TRUE,
                   !.table_with_rule =
                       generate(plan.factors, plan.exclusions \o <<plan.rule>>,
                                plan.repetitions)]
    /\ UNCHANGED <<ctrl_vars, sim>>

PlanNext == Generate \/ GenerateWithRule

PlanSpec == PlanInit /\ [][PlanNext]_vars

----------------------------------------------------------------------------
(* Claims about the synthetic measurement of a command                     *)

\* the energy of the command of the state with one part replaced, for the
\* elapsed time and the draws of the state
EnergyOf(c) == _simulate_energy(Command(c), sim.execution_time, sim.rng0).energy

WithWorkload(w) == [sim.shape EXCEPT !.wl = <<w>>]
WithGc(g) == [sim.shape EXCEPT !.gc = g]

\* C24: commands that differ only in the workload word (light, medium,
\* heavy), with the same collector flag, the same elapsed time and the same
\* draws, get energies with light < medium < heavy.
C24_EnergyIncreasesWithWorkload ==
    (sim.called /\ sim.shape.wl # <<>>) =>
        /\ sim.energy = EnergyOf(sim.shape)
        /\ EnergyOf(WithWorkload(s_light)) < EnergyOf(WithWorkload(s_medium))
        /\ EnergyOf(WithWorkload(s_medium)) < EnergyOf(WithWorkload(s_heavy))

GcMultipliers == [g \in GcFlags |-> _get_gc_power_multiplier(Command(WithGc(g)))]

\* C25: the multipliers of the Serial, Parallel and G1 flags and of no flag
\* are pairwise distinct, so commands that differ only in the collector flag
\* get different energies for equal elapsed time and equal draws.
C25_GcFlagChangesEnergy ==
    sim.called =>
        \A g, h \in GcFlags :
            g # h => /\ GcMultipliers[g] # GcMultipliers[h]
                     /\ EnergyOf(WithGc(g)) # EnergyOf(WithGc(h))

\* C25, amended: the four multipliers are pairwise distinct, and for an
\* elapsed time above zero commands that differ only in the collector flag
\* get different energies for equal draws, the lower multiplier giving the
\* lower energy, unless both energies are the floor of 0.1 J.
C25_GcFlagChangesEnergyAboveFloor ==
    (sim.called /\ sim.execution_time > 0) =>
        \A g, h \in GcFlags :
            /\ g # h => GcMultipliers[g] # GcMultipliers[h]
            /\ GcMultipliers[g] < GcMultipliers[h] =>
                  \/ EnergyOf(WithGc(g)) < EnergyOf(WithGc(h))
                  \/ /\ EnergyOf(WithGc(g)) = ENERGY_FLOOR
                     /\ EnergyOf(WithGc(h)) = ENERGY_FLOOR

C25_WitnessSerialBelowG1 ==
    /\ sim.called
    /\ sim.shape.gc = <<s_SerialGC>>
    /\ sim.execution_time > 0
    /\ sim.energy > ENERGY_FLOOR
    /\ sim.energy < EnergyOf(WithGc(<<s_G1GC>>))
    /\ EnergyOf(WithGc(<<s_ParallelGC>>)) < EnergyOf(WithGc(<<s_G1GC>>))

\* the data row that the last measurement left in its file, field by field
LastFile == sim.files[sim.last.output_file]
LastRow == Split(splitlines(LastFile)[2])

\* a decimal of the file in millionths
Micros(d) == d.whole * MICRO + d.micro

\* the energy field in ticks of 0.00002 J and the time field in tenths
RowEnergy == LET d == decimal(LastRow[2])
             IN  d.whole * TICKS_PER_JOULE + d.micro \div (MICRO \div TICKS_PER_JOULE)
RowTime == LET d == decimal(LastRow[4]) IN d.whole * 10 + d.micro \div (MICRO \div 10)
RowPower == Micros(decimal(LastRow[3]))

\* C23: in every result written, power_watts is energy_joules divided by
\* the execution time, to the sixth decimal, when the time is above zero and
\* 0 otherwise; no elapsed time makes the division fail.
C23_PowerIsEnergyOverTime ==
    sim.calls >= 1 =>
        /\ sim.exc # "ZeroDivisionError"
        /\ RowEnergy = sim.last.energy
        /\ RowTime = sim.last.execution_time
        /\ IF RowTime > 0
           THEN LET rest == RowPower - 200 * (RowEnergy \div RowTime)
                    part == 200 * (RowEnergy % RowTime)
                IN  /\ 2 * (rest * RowTime - part) <= RowTime
                    /\ 2 * (part - rest * RowTime) <= RowTime
           ELSE RowPower = 0

C23_WitnessNoElapsedTime ==
    /\ sim.calls >= 1
    /\ sim.exc = "none"
    /\ sim.last.beh.kind = "exit"
    /\ RowTime = 0
    /\ RowEnergy > 0
    /\ RowPower = 0

\* 'true' in any mix of upper and lower case
IsTrueIgnoringCase(v) ==
    /\ Len(v) = 4
    /\ v[1] \in {"t", "T"}
    /\ v[2] \in {"r", "R"}
    /\ v[3] \in {"u", "U"}
    /\ v[4] \in {"e", "E"}

MockModeOn ==
    IF sim.factory.mock_mode = "None"
    THEN sim.factory.env.set /\ IsTrueIgnoringCase(sim.factory.env.value)
    ELSE sim.factory.mock_mode = "True"

\* C26: create_mock_energibridge returns a mock provider exactly when mock
\* mode is on and raises NotImplementedError otherwise; mock mode is the
\* argument when one is given, and otherwise on exactly when ENERGY_MOCK_MODE
\* is set to 'true' in any case.
C26_FactoryFollowsMockMode ==
    sim.factory.called =>
        /\ MockModeOn => (sim.provider = "MockEnergyMeasurement"
                          /\ sim.exc # "NotImplementedError")
        /\ ~MockModeOn => (sim.provider = "none" /\ sim.exc = "NotImplementedError")

C26_WitnessUpperCaseTrue ==
    /\ sim.factory.called
    /\ sim.factory.mock_mode = "None"
    /\ sim.factory.env = EnvValue(<<"T", "R", "U", "E">>)
    /\ sim.provider = "MockEnergyMeasurement"
    /\ sim.rng.seed = DEFAULT_SEED

\* C27: after every measure_command, whatever the wrapped command did, the
\* output file is the header timestamp,energy_joules,power_watts,
\* execution_time and exactly one data row of four fields, the row of this
\* invocation: an earlier content of the file is replaced.
C27_FileIsHeaderAndOneRow ==
    sim.calls >= 1 =>
        LET lines == splitlines(LastFile) IN
        /\ Len(lines) = 2
        /\ Split(lines[1]) = [i \in 1..4 |-> <<CSV_HEADER[i]>>]
        /\ Len(LastRow) = 4
        /\ IsDigits(LastRow[1]) /\ int(LastRow[1]) = sim.last.now
        /\ \A i \in 2..4 : IsDecimal(LastRow[i])
        /\ RowEnergy = sim.last.energy

C27_WitnessSecondWriteAfterFailure ==
    /\ sim.calls = 2
    /\ sim.last.before # Missing
    /\ sim.last.beh.kind = "nostart"
    /\ Len(splitlines(LastFile)) = 2
    /\ LastFile # sim.last.before

Positive(d) == d.whole > 0 \/ d.micro > 0

\* C28: measure_command returns the exit code of the command: 0 exactly
\* when the command ended with exit code 0 within the timeout, the
\* command's own code when it ended with another, and 1 when it timed out
\* or could not be started; in every case the energy parsed back from the
\* file is above zero.
C28_ExitCodeReturned ==
    sim.calls >= 1 =>
        LET beh == sim.last.beh
            ended == beh.kind \in {"exit", "undecodable"} /\ beh.secs <= mock_timeout.secs
        IN  /\ sim.last.returns = 0 <=> (ended /\ beh.rc = 0)
            /\ ended => sim.last.returns = beh.rc
            /\ ~ended => sim.last.returns = 1
            /\ Positive(parse_energy_result(sim.files, sim.last.output_file))
            /\ sim.parsed.done => Positive(sim.parsed.value)

\* C21: two separate runs that make the same sequence of calls with the
\* same (gc, workload, jdk) inputs produce identical outputs call by call,
\* the random terms coming from a generator seeded with a fixed default
\* seed.
C21_RunsAreReproducible ==
    sim.trials >= 1 =>
        sim.first.out = sim.second.out

\* C22: every output is floored: whatever the factors and the draws, the
\* returned energy is at least 0.1 J and the returned runtime at least
\* 0.05 s, both as measured before the sleep and as stored in
\* current_run_data when interact has returned.
C22_OutputsAreFloored ==
    /\ (sim.pc = "start_run" /\ sim.trials >= 1) =>
           /\ sim.first.out.energy_joules >= 100000
           /\ sim.first.out.execution_time >= 50000
           /\ sim.second.out.energy_joules >= 100000
           /\ sim.second.out.execution_time >= 50000
    /\ sim.pc = "sleep" =>
           /\ sim.first.measured.energy_joules >= 100000
           /\ sim.first.measured.execution_time >= 50000
           /\ sim.second.measured.energy_joules >= 100000
           /\ sim.second.measured.execution_time >= 50000

C22_WitnessBothAtFloor ==
    /\ sim.pc = "start_run"
    /\ sim.trials >= 1
    /\ sim.first.out.energy_joules = 100000
    /\ sim.first.out.execution_time = 50000
    /\ sim.first.out.power_watts = 2000000

----------------------------------------------------------------------------
(* Claims about the trial plan                                             *)

RECURSIVE LevelProduct(_)
LevelProduct(factors) ==
    IF factors = <<>> THEN 1 ELSE Len(Head(factors).levels) * LevelProduct(Tail(factors))

\* every assignment of a declared level to every factor
Assignments(factors) ==
    {a \in [NamesOf(factors) -> UNION {LevelsOf(factors, n) : n \in NamesOf(factors)}] :
        \A n \in NamesOf(factors) : a[n] \in LevelsOf(factors, n)}

\* all constraints of the rule hold of the assignment
MatchesInFull(a, rule) == \A n \in DOMAIN rule : n \in DOMAIN a /\ a[n] \in rule[n]

Excluded(factors, exclusions) ==
    {a \in Assignments(factors) :
        \E i \in 1..Len(exclusions) : MatchesInFull(a, exclusions[i])}

\* C29: for valid factors, exclusion rules and repetitions >= 1 the plan has
\* (product of the level counts - excluded combinations) * repetitions
\* TrialSpecs, numbered after the filtering 1, 2, ..., n: unique, strictly
\* increasing, without gaps.
C29_PlanSizeAndNumbering ==
    (plan.generated /\ plan.table.error = "none") =>
        LET specs == plan.table.specs IN
        /\ plan.repetitions >= 1
        /\ Len(specs) =
              (LevelProduct(plan.factors)
                  - Cardinality(Excluded(plan.factors, plan.exclusions)))
              * plan.repetitions
        /\ \A i \in 1..Len(specs) : specs[i].sequence = i

C29_WitnessExcludedCombination ==
    /\ plan.generated
    /\ plan.factors = <<cpu_limit_factor, pin_core_factor>>
    /\ plan.exclusions = exclude_combinations
    /\ plan.repetitions = 2
    /\ Len(plan.table.specs) = 10
    /\ plan.table.specs[10].sequence = 10
    /\ plan.table.specs[10].levels = ("cpu_limit" :> "70") @@ ("pin_core" :> "True")

MatchesNone(rule, specs) ==
    \A i \in 1..Len(specs) : ~MatchesInFull(specs[i].levels, rule)

\* C30: adding an exclusion rule (a partial assignment of declared factors
\* to subsets of their levels) that matches zero TrialSpecs leaves the
\* generated plan unchanged: the same TrialSpecs, in the same order, with
\* the same sequence numbers.
C30_UnmatchedRuleChangesNothing ==
    (plan.extended /\ plan.table.error = "none"
        /\ plan.rule \in ValidRules(plan.factors)
        /\ MatchesNone(plan.rule, plan.table.specs)) =>
        plan.table_with_rule = plan.table

\* the rule added is one of the exclusions already applied, so it matches
\* none of the trials that are left
C30_WitnessSameRuleTwice ==
    /\ plan.extended
    /\ plan.exclusions = exclude_combinations
    /\ plan.rule = exclude_combinations[1]
    /\ Len(plan.table.specs) > 0
    /\ plan.table_with_rule = plan.table


----------------------------------------------------------------------------
(* Batch counters over a whole run, and the context fields of a trial.     *)

\* C33: a trial is started only while fewer than BATCH_SIZE trials of the
\* current batch have run; the counters of the instance change only at
\* start_run, which adds one to runs_in_batch and leaves current_batch, and
\* at the operator's confirmation, which sets runs_in_batch to zero and adds
\* exactly one to current_batch; a cancelled wait changes neither.
C33_CountersChangeOnlyAtStartAndConfirm ==
    [][ /\ pc = "start_run" => self.runs_in_batch < self.BATCH_SIZE
        /\ self' # self =>
             \/ /\ pc = "start_run"
                /\ self'.runs_in_batch = self.runs_in_batch + 1
                /\ self'.current_batch = self.current_batch
                /\ self'.BATCH_SIZE = self.BATCH_SIZE
             \/ /\ pc = "waiting"
                /\ ~interrupted'
                /\ self.runs_in_batch = self.BATCH_SIZE
                /\ self'.runs_in_batch = 0
                /\ self'.current_batch = self.current_batch + 1
                /\ self'.BATCH_SIZE = self.BATCH_SIZE
        /\ pc = "waiting" /\ pc' = "aborted" =>
             /\ self' = self
             /\ raised' \in {"KeyboardInterrupt", "EOFError"}
             /\ interrupted' <=> raised' = "KeyboardInterrupt"
        /\ pc = "waiting" /\ pc' = "start_run" =>
             /\ ~interrupted'
             /\ self'.runs_in_batch = 0
             /\ self'.current_batch = self.current_batch + 1 ]_vars

\* the first trial of the second batch is about to start after a confirmation
C33_WitnessConfirmedSecondBatch ==
    /\ pc = "start_run"
    /\ run_nr = self.BATCH_SIZE + 1
    /\ self.BATCH_SIZE = 2
    /\ run_nr \in pauses
    /\ self.runs_in_batch = 0
    /\ self.current_batch = 2

\* C34: when every trial has run and every pause was confirmed, the batch
\* number at after_experiment is the total announced by before_experiment,
\* which is ceil(total_runs / BATCH_SIZE), and the pauses were requested
\* before the first trial of each later batch only, never after the last
\* trial of the plan.
C34_FinalBatchIsAnnouncedTotal ==
    pc \in {"after_experiment", "done"} =>
        /\ self.current_batch = announced
        /\ announced = CeilDiv(total_runs, self.BATCH_SIZE)
        /\ Cardinality(pauses) = announced - 1
        /\ \A t \in pauses : t <= total_runs
        /\ self.runs_in_batch = total_runs - (announced - 1) * self.BATCH_SIZE

\* a plan that fills its last batch exactly ends without a further pause
C34_WitnessFullLastBatch ==
    /\ pc = "done"
    /\ self.BATCH_SIZE = 2
    /\ total_runs = 4
    /\ self.current_batch = 2
    /\ self.runs_in_batch = 2
    /\ pauses = {3}

\* C36: interact reads ssh_command, laptop_user and laptop_host, and
\* stop_measurement reads ssh_returncode, laptop_exp_dir, laptop_user and
\* laptop_host, only after they were assigned on the context of the same
\* trial: no hook raises AttributeError, and ssh_returncode is assigned on
\* the completion path and on the timeout path of interact.
C36_FieldsWrittenBeforeRead ==
    /\ raised # "AttributeError"
    /\ pc \in {"start_measurement", "interact", "stop_measurement"} =>
           ctx.run_nr = run_nr
    /\ pc = "start_measurement" => ctx.set = {}
    /\ pc = "interact" =>
           {"ssh_command", "laptop_user", "laptop_host"} \subseteq ctx.set
    /\ pc = "stop_measurement" =>
           /\ {"ssh_returncode", "laptop_exp_dir", "laptop_user", "laptop_host"}
                  \subseteq ctx.set
           /\ ctx.ssh_returncode =
                  IF subprocess_run(remote, ssh_timeout) = "TimeoutExpired"
                  THEN -1 ELSE remote.rc

\* stop_measurement is about to test the return code of a timed-out trial
\* that follows a completed one
C36_WitnessTimeoutSetsReturnCode ==
    /\ pc = "stop_measurement"
    /\ run_nr = 2
    /\ subprocess_run(remote, ssh_timeout) = "TimeoutExpired"
    /\ "ssh_returncode" \in ctx.set
    /\ ctx.ssh_returncode = -1


----------------------------------------------------------------------------
(* The workload multiplier of a command                                    *)

\* C38: the workload multiplier of a command is the multiplier of its
\* workload argument: the medium multiplier when the argument is medium, the
\* heavy multiplier when it is heavy, the light multiplier when it is light,
\* whatever the other arguments of the command are.
C38_MultiplierFollowsWorkloadArgument ==
    (sim.called /\ sim.shape.wl # <<>>) =>
        _get_workload_multiplier(Command(sim.shape)) =
            IF sim.shape.wl = <<s_medium>> THEN WORKLOAD_MEDIUM
            ELSE IF sim.shape.wl = <<s_heavy>> THEN WORKLOAD_HEAVY
            ELSE WORKLOAD_LIGHT


----------------------------------------------------------------------------
(* Writing a measurement file and parsing it back.  The file may exist     *)
(* before the writer runs, left by anything: absent, empty, a header with  *)
(* no row, a row whose energy is not a number, a header without the        *)
(* energy_joules column, a row shorter than the header.                    *)

HeaderLine == Join([i \in 1..4 |-> <<CSV_HEADER[i]>>]) \o CRLF

DamagedFiles ==
    {<<>>,
     HeaderLine,
     HeaderLine \o <<"1", "7", ",", "n", "/", "a", ",", "0", ".", "5", "0", "0", "0", "0", "0",
                     ",", "2", ".", "0", "0", "0", "0", "0", "0">> \o CRLF,
     <<"timestamp", ",", "joules">> \o CRLF
         \o <<"1", "7", ",", "0", ".", "5", "0", "0", "0", "0", "0">> \o CRLF,
     HeaderLine \o <<"1", "7">> \o CRLF}

\* energies handed to the writer, in ticks of 0.00002 J: the floor of 0.1 J,
\* values around 1 J, and larger ones
WrittenEnergies == {5000, 5001, 49999, 50000, 50001, 1234567, 9999999}

RoundTripInit ==
    /\ NoController
    /\ plan = NoPlan
    /\ \E before \in DamagedFiles \cup {Missing} :
          sim = [files |-> [f \in OutputFiles |-> before], before |-> before,
                 written |-> FALSE, energy |-> 0, execution_time |-> 0,
                 parsed |-> NotParsed]

WriteCsv ==
    /\ ~sim.written
    /\ ~sim.parsed.done
    /\ \E output_file \in OutputFiles, energy \in WrittenEnergies, t \in ElapsedTimes :
          LET w == _write_energibridge_csv(sim.files, output_file, energy, t, EPOCH)
          IN  sim' = [sim EXCEPT !.files = w.files, !.written = TRUE,
                                 !.energy = energy, !.execution_time = t]
    /\ UNCHANGED <<ctrl_vars, plan>>

ParseBack ==
    /\ ~sim.parsed.done
    /\ \E output_file \in OutputFiles :
          sim' = [sim EXCEPT !.parsed =
                     [done |-> TRUE,
                      value |-> parse_energy_result(sim.files, output_file)]]
    /\ UNCHANGED <<ctrl_vars, plan>>

RoundTripNext == WriteCsv \/ ParseBack

RoundTripSpec == RoundTripInit /\ [][RoundTripNext]_vars

\* C39: parsing a file the writer produced gives the energy that was
\* written, as the decimal number with six places, whatever the file held
\* before; parsing a file that is absent, empty or damaged gives 0.0.
C39_ParseGivesWrittenEnergyOrZero ==
    sim.parsed.done =>
        sim.parsed.value =
            IF sim.written
            THEN [whole |-> sim.energy \div TICKS_PER_JOULE,
                  micro |-> (sim.energy % TICKS_PER_JOULE) * (MICRO \div TICKS_PER_JOULE)]
            ELSE ZERO

\* 1.00002 J written over a damaged file and parsed back
C39_WitnessWrittenOverDamagedFile ==
    /\ sim.parsed.done
    /\ sim.written
    /\ sim.before \in DamagedFiles \ {<<>>}
    /\ sim.energy = 50001
    /\ sim.parsed.value = [whole |-> 1, micro |-> 20]


----------------------------------------------------------------------------
(* gc_energy_wrapper.py: the simulation of GCEnergyWrapper, in ticks of    *)
(* 0.000016 J (4 W, workload tenths, collector hundredths, variance in     *)
(* steps of 0.04, elapsed time in tenths of a second).                     *)

\* line 38: def setup_random_seed(self, seed: int = 42)
WRAPPER_SEED == 42
\* lines 232-240
W_WORKLOAD_LIGHT == 10
W_WORKLOAD_MEDIUM == 17
W_WORKLOAD_HEAVY == 24
W_WORKLOAD_OTHER == 10
\* line 203: random.gauss(1.0, 0.08) is (25 + 2 z) times 0.04
W_VARIANCE_UNIT == 25
W_VARIANCE_STEP == 2
\* line 210: random.gauss(0, 0.3) is z times 0.3 J
W_NOISE_SIGMA == 18750
\* line 211: max(0.1, ...)
W_ENERGY_FLOOR == 6250

\* GCEnergyWrapper._get_workload_multiplier, lines 229-240
GCEnergyWrapper_get_workload_multiplier(command) ==
    LET command_str == join(command)
    IN  IF Contains(command_str, s_light) THEN W_WORKLOAD_LIGHT
        ELSE IF Contains(command_str, s_medium) THEN W_WORKLOAD_MEDIUM
        ELSE IF Contains(command_str, s_heavy) THEN W_WORKLOAD_HEAVY
        ELSE W_WORKLOAD_OTHER

\* GCEnergyWrapper._simulate_energy, lines 185-213
GCEnergyWrapper_simulate_energy(command, execution_time, rng) ==
    LET base_power_watts ==
            IF \E i \in 1..Len(command) : Contains(command[i], s_java)
            THEN JAVA_POWER ELSE BASE_POWER
        gc_multiplier == _get_gc_power_multiplier(command)
        workload_multiplier == GCEnergyWrapper_get_workload_multiplier(command)
        variance_factor == W_VARIANCE_UNIT + W_VARIANCE_STEP * Z(rng)
        total_power ==
            base_power_watts * gc_multiplier * workload_multiplier * variance_factor
        energy_joules == total_power * execution_time
        noise == W_NOISE_SIGMA * Z(Drawn(rng))
    IN  [energy |-> Max(W_ENERGY_FLOOR, energy_joules + noise),
         rng |-> Drawn(Drawn(rng))]

\* a constructor that leaves the generator as it finds it
MockEnergyMeasurement__init__unseeded(rng, seed) == rng

\* MockEnergyMeasurement.__init__, energy_mock.py lines 16-18: the
\* process-wide generator after the construction
MockEnergyMeasurement__init__(rng, seed) == random_seed(seed)

\* GCEnergyWrapper.setup_random_seed, lines 38-40: random.seed(seed) on the
\* process-wide generator
GCEnergyWrapper_setup_random_seed(rng, seed) == random_seed(seed)

\* GCEnergyWrapper.__init__, lines 23-36: setup_random_seed() with its default
GCEnergyWrapper__init__(rng) == GCEnergyWrapper_setup_random_seed(rng, WRAPPER_SEED)

----------------------------------------------------------------------------
(* A process in which measurement objects are constructed one after the    *)
(* other and the latest one simulates energies.  Other code of the process *)
(* may draw from the generator before the first construction, and may call *)
(* the public setup_random_seed of a wrapper at any time.                  *)

MaxPriorDraws == 1
MaxSimulations == 2
MaxInstances == 2
MaxReseeds == 1

ReseedCommands == {<<s_java, s_G1GC, s_SimpleGCTest, s_medium>>, <<s_true>>}
ReseedTimes == {0, 20}
ReseedSeeds == {DEFAULT_SEED, 7}

\* a call made after a construction: a simulation or a setup_random_seed
Simulation(command, t) ==
    [op |-> "simulate", command |-> command, execution_time |-> t, seed |-> 0]
Reseeding(seed) ==
    [op |-> "seed", command |-> <<>>, execution_time |-> 0, seed |-> seed]

Simulations(calls) == SelectSeq(calls, LAMBDA c : c.op = "simulate")

\* the energies an instance of the given class gets for the calls, one
\* after the other, from the generator state rng
RECURSIVE EnergiesFrom(_, _, _)
EnergiesFrom(kind, rng, calls) ==
    IF calls = <<>> THEN <<>>
    ELSE IF Head(calls).op = "seed"
    THEN EnergiesFrom(kind, random_seed(Head(calls).seed), Tail(calls))
    ELSE LET r == IF kind = "GCEnergyWrapper"
                  THEN GCEnergyWrapper_simulate_energy(Head(calls).command,
                                                       Head(calls).execution_time, rng)
                  ELSE _simulate_energy(Head(calls).command,
                                        Head(calls).execution_time, rng)
         IN  <<r.energy>> \o EnergiesFrom(kind, r.rng, Tail(calls))

\* the generator after the calls, from the generator state rng
RECURSIVE GeneratorAfter(_, _)
GeneratorAfter(rng, calls) ==
    IF calls = <<>> THEN rng
    ELSE IF Head(calls).op = "seed"
    THEN GeneratorAfter(random_seed(Head(calls).seed), Tail(calls))
    ELSE GeneratorAfter(Drawn(Drawn(rng)), Tail(calls))

ReseedInit ==
    /\ NoController
    /\ plan = NoPlan
    /\ \E s \in Seeds :
          sim = [rng |-> random_seed(s), kind |-> "none", seed |-> 0, instances |-> 0,
                 wrapper |-> FALSE, reseeds |-> 0,
                 drawn |-> 0, before |-> 0, inputs |-> <<>>, energies |-> <<>>]

\* random.gauss called by other code of the process
OtherDraw ==
    /\ sim.kind = "none"
    /\ sim.drawn < MaxPriorDraws
    /\ sim' = [sim EXCEPT !.rng = Drawn(@), !.drawn = @ + 1]
    /\ UNCHANGED <<ctrl_vars, plan>>

ConstructMock ==
    /\ sim.instances < MaxInstances
    /\ \E seed \in ReseedSeeds :
          sim' = [sim EXCEPT !.rng = MockEnergyMeasurement__init__(sim.rng, seed),
                             !.kind = "MockEnergyMeasurement",
                             !.seed = seed,
                             !.instances = @ + 1,
                             !.before = sim.drawn,
                             !.inputs = <<>>,
                             !.energies = <<>>]
    /\ UNCHANGED <<ctrl_vars, plan>>

ConstructWrapper ==
    /\ sim.instances < MaxInstances
    /\ sim' = [sim EXCEPT !.rng = GCEnergyWrapper__init__(sim.rng),
                          !.kind = "GCEnergyWrapper",
                          !.seed = WRAPPER_SEED,
                          !.instances = @ + 1,
                          !.wrapper = TRUE,
                          !.before = sim.drawn,
                          !.inputs = <<>>,
                          !.energies = <<>>]
    /\ UNCHANGED <<ctrl_vars, plan>>

\* setup_random_seed(seed) called on a wrapper of the process, lines 38-40
SetupRandomSeed ==
    /\ sim.wrapper
    /\ sim.reseeds < MaxReseeds
    /\ \E seed \in ReseedSeeds :
          sim' = [sim EXCEPT !.rng = GCEnergyWrapper_setup_random_seed(sim.rng, seed),
                             !.reseeds = @ + 1,
                             !.inputs = Append(@, Reseeding(seed))]
    /\ UNCHANGED <<ctrl_vars, plan>>

\* the latest instance simulates the energy of a command
Simulate ==
    /\ sim.kind # "none"
    /\ Len(Simulations(sim.inputs)) < MaxSimulations
    /\ \E command \in ReseedCommands, t \in ReseedTimes :
          LET r == IF sim.kind = "GCEnergyWrapper"
                   THEN GCEnergyWrapper_simulate_energy(command, t, sim.rng)
                   ELSE _simulate_energy(command, t, sim.rng)
          IN  sim' = [sim EXCEPT !.rng = r.rng,
                                 !.drawn = @ + 2,
                                 !.inputs = Append(@, Simulation(command, t)),
                                 !.energies = Append(@, r.energy)]
    /\ UNCHANGED <<ctrl_vars, plan>>

ReseedNext ==
    \/ OtherDraw
    \/ ConstructMock
    \/ ConstructWrapper
    \/ SetupRandomSeed
    \/ Simulate

ReseedSpec == ReseedInit /\ [][ReseedNext]_vars

\* C37: the energies simulated since the latest construction of a
\* measurement object are those a fresh process would get after seeding the
\* generator with that object's seed, for the same calls (simulations with
\* their commands and elapsed times, and calls of setup_random_seed),
\* however many draws were made in the process before the construction.
C37_ConstructionReseeds ==
    sim.kind # "none" =>
        /\ sim.energies = EnergiesFrom(sim.kind, random_seed(sim.seed), sim.inputs)
        /\ sim.rng = GeneratorAfter(random_seed(sim.seed), sim.inputs)

\* a second object simulated two energies after an odd number of earlier
\* draws, some of them by the first object
C37_WitnessSecondInstanceAfterDraws ==
    /\ sim.instances = 2
    /\ sim.before % 2 = 1
    /\ sim.before >= 3
    /\ Len(sim.energies) = 2
    /\ sim.energies[1] # sim.energies[2]


----------------------------------------------------------------------------
(* Mock-Server/gc_energy_experiment/RunnerConfig3.py: the simplified mock  *)
(* experiment.  The run table is generated from the factors and the        *)
(* repetitions of create_run_table_model; the framework calls start_run,   *)
(* interact and populate_run_data for every row, in the order of the       *)
(* table, with the sequence number of the row as run number.  Energies,    *)
(* times and powers are in millionths.                                     *)

\* create_run_table_model, lines 53-64
RC3_factors ==
    <<Factor("gc_strategy", <<"SerialGC", "ParallelGC", "G1GC">>),
      Factor("workload", <<"light", "medium">>)>>

RC3_REPETITIONS == 2

\* interact, lines 95-102
run_configs ==
    <<<<"SerialGC", "light">>, <<"SerialGC", "medium">>,
      <<"ParallelGC", "light">>, <<"ParallelGC", "medium">>,
      <<"G1GC", "light">>, <<"G1GC", "medium">>>>

\* interact, lines 120-122: the values used when the mock is disabled
PLACEHOLDER_ENERGY == 2500000
PLACEHOLDER_TIME == 300000
PLACEHOLDER_POWER == 8333333
\* populate_run_data, line 151: the exit code of a trial without one
NO_EXIT_CODE == -1

\* line 170, in tenths
scaling_factors == [SerialGC |-> 18, ParallelGC |-> 13, G1GC |-> 11]

\* 2.3 ** x for the exponents x, in hundredths, of lines 175-176 and 185:
\* scaling_factor, scaling_factor * 0.7, their difference and minus
\* scaling_factor * 0.7, each to 18 decimals
POW_2_3 ==
    (180 :> <<0, 0, 0, 4, 478, 268, 254, 146, 10, 983>>)
    @@ (130 :> <<0, 0, 0, 2, 952, 882, 641, 412, 121, 311>>)
    @@ (110 :> <<0, 0, 0, 2, 499, 773, 268, 668, 189, 394>>)
    @@ (100 :> <<0, 0, 0, 2, 300, 0, 0, 0, 0, 0>>)
    @@ (126 :> <<0, 0, 0, 2, 856, 124, 97, 98, 86, 728>>)
    @@ (91 :> <<0, 0, 0, 2, 133, 891, 486, 706, 639, 961>>)
    @@ (77 :> <<0, 0, 0, 1, 899, 23, 913, 934, 516, 248>>)
    @@ (70 :> <<0, 0, 0, 1, 791, 469, 774, 589, 560, 847>>)
    @@ (54 :> <<0, 0, 0, 1, 567, 952, 967, 693, 551, 729>>)
    @@ (39 :> <<0, 0, 0, 1, 383, 801, 688, 46, 226, 986>>)
    @@ (33 :> <<0, 0, 0, 1, 316, 346, 387, 386, 456, 416>>)
    @@ (30 :> <<0, 0, 0, 1, 283, 862, 18, 5, 270, 135>>)
    @@ (-126 :> <<0, 0, 0, 0, 350, 124, 842, 620, 120, 17>>)
    @@ (-91 :> <<0, 0, 0, 0, 468, 627, 390, 956, 678, 271>>)
    @@ (-77 :> <<0, 0, 0, 0, 526, 586, 312, 400, 952, 127>>)
    @@ (-70 :> <<0, 0, 0, 0, 558, 200, 877, 393, 595, 711>>)

\* workload_multiplier ** x, x in hundredths
pow(workload_multiplier, x) == IF workload_multiplier = 10 THEN ONE ELSE POW_2_3[x]

\* _mock_energy_measurement, lines 159-187.  The energy is
\* base.energy / 10 * workload_multiplier ** scaling_factor * gauss / 20
\* joules, the time base.time / 100 * workload_multiplier **
\* (scaling_factor * 0.7) * gauss / 25 seconds, each at least its floor,
\* and the power their quotient.
RunnerConfig3_mock_energy_measurement(gc_strategy, workload, rng) ==
    LET workload_multiplier == IF workload = "medium" THEN 23 ELSE 10
        scaling_factor == IF gc_strategy \in DOMAIN scaling_factors
                          THEN scaling_factors[gc_strategy] ELSE 10
        base == IF gc_strategy \in DOMAIN base_values
                THEN base_values[gc_strategy] ELSE base_values["G1GC"]
        energy_gauss == 20 + base.variance * Z(rng)
        time_gauss == 25 + base.variance * Z(Drawn(rng))
        energy_pow == pow(workload_multiplier, 10 * scaling_factor)
        time_pow == pow(workload_multiplier, 7 * scaling_factor)
        energy_joules == Times(Times(energy_pow, base.energy * energy_gauss), 5000)
        execution_time == Times(time_pow, base.time * time_gauss * 400)
        energy_floored ==
            energy_gauss <= 0 \/ Whole(energy_joules) < 5 * SYNTH_ENERGY_FLOOR
        time_floored ==
            time_gauss <= 0 \/ Whole(execution_time) < SYNTH_TIME_FLOOR
    IN  [energy_joules |-> IF energy_floored THEN 5 * SYNTH_ENERGY_FLOOR
                           ELSE Rounded(energy_joules, 0),
         execution_time |-> IF time_floored THEN SYNTH_TIME_FLOOR
                            ELSE Rounded(execution_time, 0),
         power_watts |->
             IF energy_floored /\ time_floored
             THEN power_micro(ONE, <<SYNTH_ENERGY_FLOOR, 12500>>, 125)
             ELSE IF energy_floored
             THEN power_micro(pow(workload_multiplier, 0 - 7 * scaling_factor),
                              <<SYNTH_ENERGY_FLOOR, 12500>>, base.time * time_gauss)
             ELSE IF time_floored
             THEN power_micro(energy_pow,
                              <<base.energy * energy_gauss, 12500, 1000>>, 125)
             ELSE power_micro(pow(workload_multiplier, 3 * scaling_factor),
                              <<base.energy * energy_gauss, 12500, 1000>>,
                              base.time * time_gauss),
         rng |-> Drawn(Drawn(rng))]

\* the process starts: ENERGY_MOCK_MODE is 'true' or not (line 49), the
\* generator is as the interpreter seeded it, the run table is generated
RC3Init ==
    /\ NoController
    /\ plan = [factors |-> RC3_factors, repetitions |-> RC3_REPETITIONS,
               table |-> generate(RC3_factors, <<>>, RC3_REPETITIONS)]
    /\ \E s \in EntropySeeds, mock_enabled \in BOOLEAN :
          sim = [pc |-> "start_run", run_nr |-> 1, rng |-> random_seed(s),
                 mock_enabled |-> mock_enabled,
                 measured |-> NoOutput,
                 current_run_data |-> <<>>,
                 results |-> <<>>]

\* start_run, lines 75-81
RC3StartRun ==
    /\ sim.pc = "start_run"
    /\ sim' = [sim EXCEPT !.pc = "interact",
                          !.current_run_data = [run_id |-> sim.run_nr,
                                                run_dir |-> sim.run_nr]]
    /\ UNCHANGED <<ctrl_vars, plan>>

\* interact, lines 95-106: the pair taken for the run number
RC3Config(nr) == run_configs[((nr - 1) % Len(run_configs)) + 1]

\* interact, lines 126-133
RC3Stored(measured, nr) ==
    [energy_joules |-> measured.energy_joules,
     execution_time |-> measured.execution_time,
     power_watts |-> measured.power_watts,
     exit_code |-> 0,
     gc_strategy |-> RC3Config(nr)[1],
     workload |-> RC3Config(nr)[2]]

\* interact, lines 87-135.  With the mock enabled the hook makes the
\* measurement and sleeps min(execution_time, 0.2) seconds (line 116)
\* before it stores it; with the mock disabled it stores the placeholder
\* values at once.
RC3Interact ==
    /\ sim.pc = "interact"
    /\ LET m == RunnerConfig3_mock_energy_measurement(RC3Config(sim.run_nr)[1],
                                                      RC3Config(sim.run_nr)[2], sim.rng)
       IN  IF sim.mock_enabled
           THEN sim' = [sim EXCEPT
                           !.pc = "sleep",
                           !.rng = m.rng,
                           !.measured = [energy_joules |-> m.energy_joules,
                                         execution_time |-> m.execution_time,
                                         power_watts |-> m.power_watts]]
           ELSE sim' = [sim EXCEPT
                           !.pc = "populate_run_data",
                           !.current_run_data =
                               RC3Stored([energy_joules |-> PLACEHOLDER_ENERGY,
                                          execution_time |-> PLACEHOLDER_TIME,
                                          power_watts |-> PLACEHOLDER_POWER],
                                         sim.run_nr) @@ @]
    /\ UNCHANGED <<ctrl_vars, plan>>

\* interact, lines 126-135: the sleep is over and the measurement is stored
RC3InteractEnds ==
    /\ sim.pc = "sleep"
    /\ sim' = [sim EXCEPT
                  !.pc = "populate_run_data",
                  !.current_run_data = RC3Stored(sim.measured, sim.run_nr) @@ @]
    /\ UNCHANGED <<ctrl_vars, plan>>

\* SIGINT during the sleep of line 116: KeyboardInterrupt leaves interact,
\* the two draws are made and current_run_data holds run_id and run_dir only
RC3Interrupted ==
    /\ sim.pc = "sleep"
    /\ sim' = [sim EXCEPT !.pc = "aborted"]
    /\ UNCHANGED <<ctrl_vars, plan>>

\* populate_run_data, lines 145-152; the framework writes the returned
\* columns to the row of the trial and goes on to the next row
RC3PopulateRunData ==
    /\ sim.pc = "populate_run_data"
    /\ LET d == sim.current_run_data
           get(key, default) == IF key \in DOMAIN d THEN d[key] ELSE default
           run_data == [energy_joules |-> get("energy_joules", 0),
                        execution_time |-> get("execution_time", 0),
                        power_watts |-> get("power_watts", 0),
                        exit_code |-> get("exit_code", NO_EXIT_CODE)]
       IN  sim' = [sim EXCEPT
                      !.results = Append(@, run_data),
                      !.run_nr = IF @ < Len(plan.table.specs) THEN @ + 1 ELSE @,
                      !.pc = IF sim.run_nr < Len(plan.table.specs)
                             THEN "start_run" ELSE "done"]
    /\ UNCHANGED <<ctrl_vars, plan>>

RC3Next ==
    \/ RC3StartRun
    \/ RC3Interact
    \/ RC3InteractEnds
    \/ RC3Interrupted
    \/ RC3PopulateRunData

SimplifiedSpec == RC3Init /\ [][RC3Next]_vars

\* C35: in every run of the plan of 3 collectors, 2 workloads and 2
\* repetitions, the collector and the workload that interact derives from
\* the run number are the levels of the planned trial with that sequence
\* number.
C35_DerivedPairIsPlannedPair ==
    sim.pc = "populate_run_data" =>
        /\ Len(plan.table.specs) = 12
        /\ plan.table.specs[sim.run_nr].sequence = sim.run_nr
        /\ sim.current_run_data.gc_strategy =
               plan.table.specs[sim.run_nr].levels["gc_strategy"]
        /\ sim.current_run_data.workload =
               plan.table.specs[sim.run_nr].levels["workload"]


----------------------------------------------------------------------------
(* End to end: the plan of two collectors, two workloads and one           *)
(* repetition, with one exclusion rule that removes one combination, is    *)
(* generated and every trial of it is run by the batch experiment.         *)

E2E_exclusions == <<("gc_strategy" :> {"G1GC"}) @@ ("workload" :> {"heavy"})>>

EndToEndInit ==
    /\ self \in {RunnerConfig(n) : n \in 1..MaxBatchSize}
    /\ plan = [factors |-> <<gc_factor, workload_factor>>,
               exclusions |-> E2E_exclusions,
               repetitions |-> 1,
               table |-> generate(<<gc_factor, workload_factor>>, E2E_exclusions, 1)]
    /\ total_runs = Len(plan.table.specs)
    /\ pc = "before_experiment"
    /\ run_nr = 1
    /\ ctx = NewContext(0)
    /\ fs = EmptyDir
    /\ trace = <<>>
    /\ results = <<>>
    /\ heap = <<>>
    /\ interrupted = FALSE
    /\ pauses = {}
    /\ raised = "none"
    /\ announced = 0
    /\ remote = NoRemote
    /\ dut = NoWorkload
    /\ sim = NoSim

EndToEndSpec == EndToEndInit /\ [][Next]_vars

\* the remote command of the current trial ended in time with exit code 0
\* and a well-formed SUCCESS record was retrieved
SuccessfulTrial ==
    /\ remote.kind = "exit"
    /\ ~TimeoutExpired(remote)
    /\ remote.rc = 0
    /\ "result.csv" \in DOMAIN fs.files
    /\ fs.files["result.csv"] = GoodLine

\* C31: the plan has exactly 3 TrialSpecs, numbered 1, 2, 3, none of them
\* the excluded combination; every trial that is run adds exactly one
\* result, at the position of its sequence number and for the levels the
\* plan gives that number, with status SUCCESS when its remote command
\* succeeded and its result record was a well-formed SUCCESS record; results
\* recorded earlier stay as they are, and the experiment ends with exactly
\* 3 results.
C31_ThreeTrialsThreeResults ==
    [][ /\ Len(plan.table.specs) = 3
        /\ total_runs = 3
        /\ \A i \in 1..3 :
              /\ plan.table.specs[i].sequence = i
              /\ ~matches(plan.table.specs[i].levels, E2E_exclusions[1])
        /\ \A i, j \in 1..3 :
              i # j => plan.table.specs[i].levels # plan.table.specs[j].levels
        /\ results' # results =>
              /\ pc = "populate_run_data"
              /\ Len(results) = run_nr - 1
              /\ Len(results') = run_nr
              /\ ctx.run_nr = run_nr
              /\ ctx.run_variation.gc = plan.table.specs[run_nr].levels["gc_strategy"]
              /\ ctx.run_variation.workload = plan.table.specs[run_nr].levels["workload"]
              /\ \A k \in 1..Len(results) :
                    /\ results'[k] = results[k]
                    /\ heap'[results'[k]] = heap[results[k]]
                    /\ results'[run_nr] # results[k]
              /\ SuccessfulTrial => heap'[results'[run_nr]].status = <<"SUCCESS">>
        /\ pc' \in {"after_experiment", "done"} => Len(results') = 3 ]_vars

\* the experiment is over and all 3 results have status SUCCESS
C31_WitnessAllSucceeded ==
    /\ pc = "done"
    /\ Len(plan.table.specs) = 3
    /\ Len(results) = 3
    /\ \A k \in 1..3 : Result(k).status = <<"SUCCESS">>
    /\ Cardinality({results[k] : k \in 1..3}) = 3
    /\ ctx.run_variation.gc = "G1GC"
    /\ ctx.run_variation.workload = "light"


----------------------------------------------------------------------------
(* The state an experiment keeps between the hooks of a trial, in          *)
(* Mock-Server/gc_energy_experiment/RunnerConfig.py (the dictionary        *)
(* current_run_data) and in gc_energy_experiment/RunnerConfig2.py (the     *)
(* dictionary current_run_info, the path current_energy_file and the       *)
(* energy file in the directory of the trial).  Every stored value is kept *)
(* with the number of the trial whose hook produced it: [v, by].  A path   *)
(* in the run directory of trial n is the number n.                        *)

\* RunnerConfig2.py lines 162-163: 2.5 J in ticks of 0.00002 J, 0.2 s in tenths
RC2_ENERGY == 125000
RC2_TIME == 2
\* RunnerConfig2.py line 226: the exit code reported when the parsing raises
RC2_ERROR_EXIT_CODE == -1

By(v, n) == [v |-> v, by |-> n]

\* start_run updating the dictionary of the instance in place
start_run_update(info, n) ==
    [run_id |-> By(n, n), run_dir |-> By(n, n)] @@ info

\* start_run, RunnerConfig.py lines 84-89 and RunnerConfig2.py lines 115-127:
\* a new dictionary is bound to the attribute
RunnerConfig_start_run(info, n) ==
    [run_id |-> By(n, n), run_dir |-> By(n, n)]

\* what subprocess.run(java_command, ...) and the writer do in a trial of
\* RunnerConfig2: java cannot be started, never ends, ends with output
\* that cannot be decoded (text=True), or ends with an exit code, and then
\* the energy file can or cannot be written
JavaBehaviours ==
    {[kind |-> k, rc |-> 0, writable |-> TRUE] : k \in {"nostart", "hung", "undecodable"}}
    \cup {[kind |-> "exit", rc |-> r, writable |-> w] : r \in {0, 1}, w \in BOOLEAN}

\* the factors of a trial of the mock experiment
MockTrials ==
    {[gc_strategy |-> "SerialGC", workload |-> "light", jdk |-> s_openjdk17],
     [gc_strategy |-> "G1GC", workload |-> "heavy", jdk |-> s_oraclejdk11]}

TrialSeeds == {0, DEFAULT_SEED}

TrialStateInit ==
    /\ NoController
    /\ plan = NoPlan
    /\ \E config \in {"RunnerConfig", "RunnerConfig2"}, s \in TrialSeeds :
          sim = [config |-> config, pc |-> "start_run", run_nr |-> 1,
                 rng |-> random_seed(s),
                 measured |-> NoOutput,
                 current |-> <<>>,
                 current_energy_file |-> By(0, 0),
                 files |-> [d \in 1..MaxTrials |-> Missing],
                 written_by |-> [d \in 1..MaxTrials |-> 0],
                 results |-> <<>>,
                 now |-> EPOCH]

\* start_run of either experiment
TrialStartRun ==
    /\ sim.pc = "start_run"
    /\ sim.run_nr <= MaxTrials
    /\ sim' = [sim EXCEPT
                  !.pc = "interact",
                  !.current = RunnerConfig_start_run(sim.current, sim.run_nr),
                  !.current_energy_file =
                      IF sim.config = "RunnerConfig2"
                      THEN By(sim.run_nr, sim.run_nr) ELSE @]
    /\ UNCHANGED <<ctrl_vars, plan>>

\* interact, RunnerConfig.py lines 94-118: the measurement is computed from
\* the factors and the hook sleeps min(execution_time, 0.2) seconds
TrialInteractMock ==
    /\ sim.pc = "interact"
    /\ sim.config = "RunnerConfig"
    /\ \E f \in MockTrials :
          LET m == _mock_energy_measurement(f.gc_strategy, f.workload, f.jdk, sim.rng)
          IN  sim' = [sim EXCEPT
                         !.pc = "sleep",
                         !.rng = m.rng,
                         !.measured = [energy_joules |-> m.energy_joules,
                                       execution_time |-> m.execution_time,
                                       power_watts |-> m.power_watts]]
    /\ UNCHANGED <<ctrl_vars, plan>>

\* interact, RunnerConfig.py lines 122-129: the sleep is over and the
\* measurement is stored
TrialInteractMockEnds ==
    /\ sim.pc = "sleep"
    /\ LET n == sim.run_nr
       IN  sim' = [sim EXCEPT
                      !.pc = "populate_run_data",
                      !.current = [energy_joules |-> By(sim.measured.energy_joules, n),
                                   execution_time |-> By(sim.measured.execution_time, n),
                                   power_watts |-> By(sim.measured.power_watts, n),
                                   exit_code |-> By(0, n)] @@ @]
    /\ UNCHANGED <<ctrl_vars, plan>>

\* interact, RunnerConfig2.py lines 134-157: java is started and the hook
\* waits for it in subprocess.run, which has no timeout; a command that
\* cannot be started raises at once, the exception is logged (line 179) and
\* the hook returns
TrialInteractJava ==
    /\ sim.pc = "interact"
    /\ sim.config = "RunnerConfig2"
    /\ \E started \in BOOLEAN :
          sim' = [sim EXCEPT !.pc = IF started THEN "java_wait"
                                    ELSE "populate_run_data"]
    /\ UNCHANGED <<ctrl_vars, plan>>

\* interact, RunnerConfig2.py lines 152-179: java has ended or never ends;
\* the energy file of the trial is written and the dictionary updated; any
\* exception is logged and the hook returns
TrialInteractJavaEnds ==
    /\ sim.pc = "java_wait"
    /\ \E beh \in JavaBehaviours :
          LET n == sim.run_nr
              path == sim.current_energy_file
              w == _write_energibridge_csv(sim.files, path.v, RC2_ENERGY, RC2_TIME,
                                           sim.now)
          IN  /\ beh.kind # "nostart"
              /\ IF beh.kind = "hung"
                 THEN sim' = [sim EXCEPT !.pc = "interact_blocked"]
                 ELSE IF beh.kind = "undecodable" \/ ~beh.writable
                 THEN sim' = [sim EXCEPT !.pc = "populate_run_data"]
                 ELSE sim' = [sim EXCEPT
                                 !.pc = "populate_run_data",
                                 !.files = w.files,
                                 !.written_by = [@ EXCEPT ![path.v] = n],
                                 !.now = @ + 1,
                                 !.current = [exit_code |-> By(beh.rc, n),
                                              energy_file |-> path,
                                              gc_strategy |-> By("G1GC", n),
                                              workload |-> By("light", n)] @@ @]
    /\ UNCHANGED <<ctrl_vars, plan>>

\* SIGINT during the sleep of RunnerConfig.py line 118 or the wait of
\* RunnerConfig2.py line 152: KeyboardInterrupt, which `except Exception`
\* does not catch, leaves interact with nothing stored
TrialInterrupted ==
    /\ sim.pc \in {"sleep", "java_wait"}
    /\ sim' = [sim EXCEPT !.pc = "aborted"]
    /\ UNCHANGED <<ctrl_vars, plan>>

\* populate_run_data: RunnerConfig.py lines 139-140 returns the dictionary
\* of the trial; RunnerConfig2.py lines 189-228 builds a new one from the
\* exit code and the energy file recorded in current_run_info
TrialPopulateRunData ==
    /\ sim.pc = "populate_run_data"
    /\ LET n == sim.run_nr
           info == sim.current
           path == info.energy_file.v
           run_data ==
               IF sim.config = "RunnerConfig" THEN info
               ELSE IF "exit_code" \notin DOMAIN info
               THEN [energy_joules |-> By(ZERO, n), execution_time |-> By(0, n),
                     exit_code |-> By(RC2_ERROR_EXIT_CODE, n),
                     error |-> By("'exit_code'", n)]
               ELSE IF info.exit_code.v = 0
               THEN [energy_joules |->
                         By(parse_energy_result(sim.files, path),
                            IF sim.files[path] = Missing THEN n ELSE sim.written_by[path]),
                     execution_time |-> By(0, n),
                     exit_code |-> info.exit_code]
               ELSE [energy_joules |-> By(ZERO, n), execution_time |-> By(0, n),
                     exit_code |-> info.exit_code]
       IN  sim' = [sim EXCEPT !.pc = "start_run",
                              !.run_nr = @ + 1,
                              !.results = Append(@, run_data)]
    /\ UNCHANGED <<ctrl_vars, plan>>

TrialStateNext ==
    \/ TrialStartRun
    \/ TrialInteractMock
    \/ TrialInteractMockEnds
    \/ TrialInteractJava
    \/ TrialInteractJavaEnds
    \/ TrialInterrupted
    \/ TrialPopulateRunData

TrialStateSpec == TrialStateInit /\ [][TrialStateNext]_vars

\* C32: every value of the result returned for trial k was produced by a
\* hook of trial k, also when trial k fails before it produces an exit code
\* or an energy file; and between start_run and populate_run_data the
\* instance holds no value of an earlier trial.
C32_ResultHoldsOwnValuesOnly ==
    /\ \A k \in 1..Len(sim.results) :
          \A key \in DOMAIN sim.results[k] : sim.results[k][key].by = k
    /\ sim.pc \in {"interact", "sleep", "java_wait", "populate_run_data"} =>
          /\ \A key \in DOMAIN sim.current : sim.current[key].by = sim.run_nr
          /\ sim.config = "RunnerConfig2" => sim.current_energy_file.by = sim.run_nr

\* a trial whose java command could not be started follows a trial that
\* succeeded and whose energy was parsed from its file
C32_WitnessFailureAfterSuccess ==
    /\ sim.config = "RunnerConfig2"
    /\ Len(sim.results) = 2
    /\ sim.results[1].exit_code.v = 0
    /\ sim.results[1].energy_joules.v = [whole |-> 2, micro |-> 500000]
    /\ sim.results[2].exit_code.v = RC2_ERROR_EXIT_CODE
    /\ sim.results[2].energy_joules.v = ZERO

============================================================================
